---- MODULE Spec2Model ----
(***************************************************************************)
(* A model of r2d2's RESP client (src/mod.ts, the RedisClient version,     *)
(* lines 386-740): createRequest, the readLines generator, readReply and   *)
(* the RedisClient promise queue over one connection.                      *)
(*                                                                         *)
(* Bytes are integers 0..255, text is a sequence of code points.  A reply  *)
(* value is a record tagged by t, a rejection reason a record tagged by k. *)
(***************************************************************************)
EXTENDS Integers, Sequences, FiniteSets, TLC

VARIABLES
  ops,      \* RedisClient.#queue: the chain of enqueued operations, in call order
  lis,      \* the iterator returned by RedisClient.readReplies (at most one live)
  wire,     \* bytes the server has sent and the client has not read yet
  closed,   \* the server has closed the connection (end-of-stream after wire)
  inbox,    \* commands written to the connection and not yet answered
  answers,  \* history: the replies the server has sent, in order
  log,      \* history: the writes and reads performed on the connection
  h,        \* the readReply harness of SpecDecode (a Buffer-backed reader)
  bench     \* the subject of the specifications of single functions

vars == <<ops, lis, wire, closed, inbox, answers, log, h, bench>>

----------------------------------------------------------------------------
(* Byte constants                                                          *)

CR == 13
LF == 10
ARRAY_PREFIX == 42
ATTRIBUTE_PREFIX == 124
BIG_NUMBER_PREFIX == 40
BLOB_ERROR_PREFIX == 33
BOOLEAN_PREFIX == 35
BULK_STRING_PREFIX == 36
DOUBLE_PREFIX == 44
ERROR_PREFIX == 45
INTEGER_PREFIX == 58
MAP_PREFIX == 37
NULL_PREFIX == 95
PUSH_PREFIX == 62
SET_PREFIX == 126
SIMPLE_STRING_PREFIX == 43
VERBATIM_STRING_PREFIX == 61

CRLF == <<CR, LF>>
DELIM_LPS == <<0, 0>>

\* new Uint8Array(1024): the size of one physical read's buffer
InspectArrLength == 1024

\* code points of characters used in text
ChMinus == 45
ChPlus == 43
ChZero == 48
Ch_t == 116

----------------------------------------------------------------------------
(* Generic helpers                                                         *)

Min(a, b) == IF a <= b THEN a ELSE b

\* JS slice(from) and slice(from, to) with 0-based, end-exclusive indices
SliceFrom(s, from) == SubSeq(s, from + 1, Len(s))
Slice(s, from, to) == SubSeq(s, from + 1, to)

RECURSIVE Concat(_)
Concat(ss) == IF ss = <<>> THEN <<>> ELSE Head(ss) \o Concat(Tail(ss))


----------------------------------------------------------------------------
(* Text encoding and number formatting                                     *)

\* TextEncoder.encode for code points below 0x800
RECURSIVE Utf8Encode(_)
Utf8Encode(text) ==
  IF text = <<>> THEN <<>>
  ELSE LET c == Head(text)
       IN (IF c < 128 THEN <<c>>
           ELSE <<192 + (c \div 64), 128 + (c % 64)>>) \o Utf8Encode(Tail(text))

\* TextDecoder.decode: ASCII bytes, two-byte sequences, U+FFFD for a byte
\* that starts no well-formed sequence (longer sequences are outside the
\* byte alphabet of this model)
RECURSIVE Utf8Decode(_)
Utf8Decode(bytes) ==
  IF bytes = <<>> THEN <<>>
  ELSE LET b == Head(bytes)
       IN IF b < 128 THEN <<b>> \o Utf8Decode(Tail(bytes))
          ELSE IF /\ b >= 194 /\ b <= 223 /\ Len(bytes) >= 2
                  /\ bytes[2] >= 128 /\ bytes[2] <= 191
               THEN <<(b - 192) * 64 + (bytes[2] - 128)>>
                    \o Utf8Decode(SubSeq(bytes, 3, Len(bytes)))
               ELSE <<65533>> \o Utf8Decode(Tail(bytes))

\* Number.prototype.toString for a non-negative integer
RECURSIVE NatToString(_)
NatToString(n) ==
  IF n < 10 THEN <<ChZero + n>>
  ELSE NatToString(n \div 10) \o <<ChZero + (n % 10)>>

\* Number.prototype.toString for an integer
IntToString(n) == IF n < 0 THEN <<ChMinus>> \o NatToString(0 - n) ELSE NatToString(n)

IsDigit(c) == c >= ChZero /\ c <= ChZero + 9

RECURSIVE DigitsValue(_, _)
DigitsValue(text, acc) ==
  IF text = <<>> THEN acc
  ELSE DigitsValue(Tail(text), acc * 10 + (Head(text) - ChZero))

IsDigits(text) == text # <<>> /\ \A i \in 1..Len(text) : IsDigit(text[i])

\* Decimal numerals as sequences of digits 0..9, most significant first
DigitsOf(text) == [i \in 1..Len(text) |-> text[i] - ChZero]
TextOf(digits) == [i \in 1..Len(digits) |-> ChZero + digits[i]]

RECURSIVE StripZeros(_)
StripZeros(digits) ==
  IF Len(digits) > 1 /\ Head(digits) = 0 THEN StripZeros(Tail(digits)) ELSE digits

NumeralLess(a, b) ==
  \/ Len(a) < Len(b)
  \/ /\ Len(a) = Len(b)
     /\ \E i \in 1..Len(a) : a[i] < b[i] /\ \A j \in 1..(i - 1) : a[j] = b[j]

\* the numeral halved: quotient q and remainder r
RECURSIVE HalveFrom(_, _, _)
HalveFrom(digits, carry, acc) ==
  IF digits = <<>> THEN [q |-> StripZeros(acc), r |-> carry]
  ELSE LET x == carry * 10 + Head(digits)
       IN HalveFrom(Tail(digits), x % 2, Append(acc, x \div 2))

\* the numeral times 2 plus carry
RECURSIVE TwiceFrom(_, _, _)
TwiceFrom(digits, carry, acc) ==
  IF digits = <<>> THEN (IF carry = 0 THEN acc ELSE <<carry>> \o acc)
  ELSE LET x == 2 * digits[Len(digits)] + carry
       IN TwiceFrom(SubSeq(digits, 1, Len(digits) - 1), x \div 10, <<x % 10>> \o acc)

\* the numeral plus carry
RECURSIVE PlusFrom(_, _, _)
PlusFrom(digits, carry, acc) ==
  IF digits = <<>> THEN (IF carry = 0 THEN acc ELSE <<carry>> \o acc)
  ELSE LET x == digits[Len(digits)] + carry
       IN PlusFrom(SubSeq(digits, 1, Len(digits) - 1), x \div 10, <<x % 10>> \o acc)

RECURSIVE TimesTwoTo(_, _)
TimesTwoTo(digits, e) ==
  IF e = 0 THEN digits ELSE TimesTwoTo(TwiceFrom(digits, 0, <<>>), e - 1)

\* 2^53: below it every integer is a Number
TwoTo53 == <<9, 0, 0, 7, 1, 9, 9, 2, 5, 4, 7, 4, 0, 9, 9, 2>>

\* The Number nearest to an integer numeral (IEEE 754 binary64, ties to
\* even): the numeral is halved e times until it fits 53 bits, rounded on
\* the bits shifted out (the last one `half`, any earlier one `sticky`),
\* and scaled back by 2^e
RECURSIVE ToDoubleFrom(_, _, _, _)
ToDoubleFrom(q, e, half, sticky) ==
  IF NumeralLess(q, TwoTo53)
  THEN LET up == half = 1 /\ (sticky \/ q[Len(q)] % 2 = 1)
       IN TimesTwoTo(IF up THEN PlusFrom(q, 1, <<>>) ELSE q, e)
  ELSE LET hv == HalveFrom(q, 0, <<>>)
       IN ToDoubleFrom(hv.q, e + 1, hv.r, sticky \/ half = 1)

\* a numeral of at most 9 digits is kept as an integer of the model; a
\* longer one is kept as the decimal text of the Number it converts to
IsSmall(digits) == Len(digits) <= 9

\* Number(text) for a run of digits, negated when neg
NumberFrom(neg, text) ==
  LET digits == StripZeros(DigitsOf(text))
  IN IF IsSmall(digits)
     THEN [t |-> "number",
           v |-> IF neg THEN 0 - DigitsValue(text, 0) ELSE DigitsValue(text, 0)]
     ELSE [t |-> "number",
           v |-> (IF neg THEN <<ChMinus>> ELSE <<>>)
                 \o TextOf(ToDoubleFrom(digits, 0, 0, FALSE))]

\* Number(line) on the text this model produces: "" is 0, an optionally
\* signed run of digits is that integer as a Number, anything else is NaN
NumberOf(line) ==
  IF line = <<>> THEN [t |-> "number", v |-> 0]
  ELSE IF IsDigits(line) THEN NumberFrom(FALSE, line)
  ELSE IF Head(line) = ChMinus /\ IsDigits(Tail(line)) THEN NumberFrom(TRUE, Tail(line))
  ELSE IF Head(line) = ChPlus /\ IsDigits(Tail(line)) THEN NumberFrom(FALSE, Tail(line))
  ELSE [t |-> "NaN"]

\* The length Array.fromAsync({length}) takes from Number(line): ToLength
LengthOf(num) == IF num.t = "number" /\ num.v > 0 THEN num.v ELSE 0

----------------------------------------------------------------------------
(* createRequest                                                           *)

\* A command argument: text, an integer number, or a Uint8Array
StrArg(text) == [t |-> "string", v |-> text]
NumArg(n) == [t |-> "number", v |-> n]
BinArg(bytes) == [t |-> "Uint8Array", v |-> bytes]

ArgBytes(arg) ==
  IF arg.t = "Uint8Array" THEN arg.v
  ELSE IF arg.t = "number" THEN Utf8Encode(IntToString(arg.v))
  ELSE Utf8Encode(arg.v)

\* (variant: the length written is the number of characters of the text)
RECURSIVE ArgLinesCharLength(_)
ArgLinesCharLength(command) ==
  IF command = <<>> THEN <<>>
  ELSE LET bytes == ArgBytes(Head(command))
           chars == IF Head(command).t = "string" THEN Head(command).v ELSE bytes
       IN <<BULK_STRING_PREFIX>> \o Utf8Encode(NatToString(Len(chars))) \o CRLF
          \o bytes \o CRLF \o ArgLinesCharLength(Tail(command))

RECURSIVE ArgLines(_)
ArgLines(command) ==
  IF command = <<>> THEN <<>>
  ELSE LET bytes == ArgBytes(Head(command))
       IN <<BULK_STRING_PREFIX>> \o Utf8Encode(NatToString(Len(bytes))) \o CRLF
          \o bytes \o CRLF \o ArgLines(Tail(command))

createRequest(command) ==
  <<ARRAY_PREFIX>> \o Utf8Encode(NatToString(Len(command))) \o CRLF
  \o ArgLines(command)

RECURSIVE MapCreateRequest(_)
MapCreateRequest(commands) ==
  IF commands = <<>> THEN <<>>
  ELSE <<createRequest(Head(commands))>> \o MapCreateRequest(Tail(commands))

----------------------------------------------------------------------------
(* readLines: the generator, one record per iterator                       *)
(*   pc = "start"  not yet started (its first step is a physical read)     *)
(*        "read"   blocked in reader.read(inspectArr)                      *)
(*        "yield"  at `yield readyBytes` inside the scan loop              *)
(*        "last"   at `yield chunks` after end-of-stream                   *)
(*        "done"   returned                                                *)
(*        "spin"   in the scan loop with no variable changing any more     *)

readLines ==
  [pc |-> "start", chunks |-> <<>>, inspectIndex |-> 0, matchIndex |-> 0,
   inspectArr |-> <<>>, localIndex |-> 0]

\* inspectArr[i] of the zero-filled Uint8Array(1024) holding one read
InspectAt(inspectArr, i) == IF i < Len(inspectArr) THEN inspectArr[i + 1] ELSE 0

\* The inner while loop, run until it yields, exits or stops changing state.
\* On exit the generator is at the top of the outer loop, where a fresh
\* inspectArr is allocated and the read is issued.
RECURSIVE ScanLoop(_)
ScanLoop(g) ==
  IF ~(g.inspectIndex < Len(g.chunks))
  THEN [g EXCEPT !.pc = "read", !.inspectArr = <<>>, !.localIndex = 0]
  ELSE IF InspectAt(g.inspectArr, g.localIndex) = CRLF[g.matchIndex + 1]
  THEN LET g1 == [g EXCEPT !.inspectIndex = @ + 1, !.localIndex = @ + 1,
                           !.matchIndex = @ + 1]
       IN IF g1.matchIndex = Len(DELIM_LPS)
          THEN [g1 EXCEPT !.pc = "yield"]
          ELSE ScanLoop(g1)
  ELSE IF g.matchIndex = 0
  THEN ScanLoop([g EXCEPT !.inspectIndex = @ + 1, !.localIndex = @ + 1])
  ELSE [g EXCEPT !.pc = "spin"]

\* readyBytes of the pending `yield readyBytes`
ReadyBytes(g) == Slice(g.chunks, 0, g.inspectIndex - Len(DELIM_LPS))

\* reader.read returned `bytes` (result = Len(bytes) > 0)
ReadBytes(g, bytes) ==
  ScanLoop([g EXCEPT !.chunks = @ \o bytes, !.inspectArr = bytes, !.localIndex = 0])

\* (variant: the loop is left at end-of-stream without `yield chunks`)
ReadNullNoYield(g) == [g EXCEPT !.pc = "done"]

\* reader.read returned null: `yield chunks`
ReadNull(g) == [g EXCEPT !.pc = "last"]

\* iterator.next() on a generator that is not blocked in a read
Resume(g) ==
  CASE g.pc = "start" -> [g EXCEPT !.pc = "read"]
    [] g.pc = "yield" -> ScanLoop([g EXCEPT !.chunks = SliceFrom(@, g.inspectIndex),
                                            !.inspectIndex = 0, !.matchIndex = 0])
    [] g.pc = "last" -> [g EXCEPT !.pc = "done"]
    [] OTHER -> g

\* The result of iterator.next() once the generator has stopped at a yield
\* or has returned: value (undefined when done) and done
NextDone(g) == g.pc = "done"
NextValue(g) ==
  IF g.pc = "yield" THEN ReadyBytes(g) ELSE IF g.pc = "last" THEN g.chunks ELSE <<>>

----------------------------------------------------------------------------
(* Reply values and rejection reasons                                      *)

Null == [t |-> "null"]
Undefined == [t |-> "undefined"]
Str(text) == [t |-> "string", v |-> text]
Bytes(bytes) == [t |-> "Uint8Array", v |-> bytes]
Bool(b) == [t |-> "boolean", v |-> b]
Arr(items) == [t |-> "array", v |-> items]

\* (variant: the error code 'ERR ' at the start of the message is dropped)
RejStringWithoutCode(text) ==
  [k |-> "string",
   v |-> IF Len(text) >= 4 /\ SubSeq(text, 1, 4) = <<69, 82, 82, 32>>
         THEN SubSeq(text, 5, Len(text)) ELSE text]

\* a rejection with a string (server errors) and with an Error object
RejString(text) == [k |-> "string", v |-> text]
RejError(name, message) == [k |-> name, m |-> message]
\* (variant: the rejection made with a string, as the error branches do)
NoReplyAsString == RejString(<<78, 111, 32, 114, 101, 112, 108, 121>>)
NoReplyReceived == RejError("TypeError", "No reply received")
UndefinedLength == RejError("TypeError", "Cannot read properties of undefined")

IsPrimitive(v) == v.t \notin {"array", "object", "set", "Uint8Array"}

\* new Set(items): SameValueZero keeps one of equal primitives, every object
RECURSIVE NewSet(_, _)
NewSet(items, acc) ==
  IF items = <<>> THEN [t |-> "set", v |-> acc]
  ELSE LET x == Head(items)
       IN IF IsPrimitive(x) /\ \E i \in 1..Len(acc) : acc[i] = x
          THEN NewSet(Tail(items), acc)
          ELSE NewSet(Tail(items), Append(acc, x))

\* ToPropertyKey of a reply used as a map key
KeyOf(v) ==
  CASE v.t = "string" -> v.v
    [] v.t = "number" -> IntToString(v.v)
    [] v.t = "bigint" -> IntToString(v.v)
    [] v.t = "boolean" -> IF v.v THEN <<116, 114, 117, 101>> ELSE <<102, 97, 108, 115, 101>>
    [] v.t = "null" -> <<110, 117, 108, 108>>
    [] OTHER -> <<91, 111, 98, 106, 101, 99, 116, 93>>

\* an integer index key ("0", "1", ...): such keys are ordered first, ascending
IsIndexKey(key) == IsDigits(key) /\ (Len(key) = 1 \/ Head(key) # ChZero)

KeyBefore(a, b) ==
  /\ IsIndexKey(a)
  /\ (~IsIndexKey(b) \/ DigitsValue(a, 0) < DigitsValue(b, 0))

\* obj[key] = val on an object kept as its own-property sequence
ObjSet(entries, key, val) ==
  IF \E i \in 1..Len(entries) : entries[i].key = key
  THEN [i \in 1..Len(entries) |->
          IF entries[i].key = key THEN [key |-> key, val |-> val] ELSE entries[i]]
  ELSE LET n == Cardinality({i \in 1..Len(entries) : ~KeyBefore(key, entries[i].key)})
       IN SubSeq(entries, 1, n) \o <<[key |-> key, val |-> val]>>
          \o SubSeq(entries, n + 1, Len(entries))

\* Object.fromEntries(chunk(array, 2)) for an array of even length
RECURSIVE FromEntries(_, _)
FromEntries(array, entries) ==
  IF Len(array) < 2 THEN [t |-> "object", v |-> entries]
  ELSE FromEntries(SubSeq(array, 3, Len(array)),
                   ObjSet(entries, KeyOf(array[1]), array[2]))

\* BigInt(line) on the text this model produces
IsIntegerText(line) ==
  \/ line = <<>>
  \/ IsDigits(line)
  \/ (Head(line) \in {ChMinus, ChPlus} /\ IsDigits(Tail(line)))

----------------------------------------------------------------------------
(* readReply, with its recursion kept as an explicit stack.  A stack entry *)
(* is a pending readNReplies (k = "n", wrapped as array, map, set or       *)
(* attribute) or a pending payload line (k = "line", of a bulk string or   *)
(* of a blob error).  raw is the raw argument passed to the nested calls.  *)

Pending(stack) == [st |-> "awaiting", stack |-> stack, out |-> Null]
Resolved(v) == [st |-> "resolved", stack |-> <<>>, out |-> v]
Rejected(reason) == [st |-> "rejected", stack |-> <<>>, out |-> reason]

Top(stack) == stack[Len(stack)]
Pop(stack) == SubSeq(stack, 1, Len(stack) - 1)

\* The innermost pending readReply call resolved with v
RECURSIVE Deliver(_, _), Complete(_, _, _)
Deliver(stack, v) ==
  IF stack = <<>> THEN Resolved(v)
  ELSE LET acc == Append(Top(stack).acc, v)
       IN IF Len(acc) < Top(stack).need
          THEN Pending(Append(Pop(stack), [Top(stack) EXCEPT !.acc = acc]))
          ELSE Complete(Pop(stack), Top(stack).wrap, acc)

\* readNReplies resolved with array `acc` for the caller `wrap`
Complete(stack, wrap, acc) ==
  CASE wrap = "array" -> Deliver(stack, Arr(acc))
    [] wrap = "map" -> Deliver(stack, FromEntries(acc, <<>>))
    [] wrap = "set" -> Deliver(stack, NewSet(acc, <<>>))
    [] OTHER -> Pending(stack)   \* attribute: return readReply(iterator, raw)

\* (variant: a count of 0 gives null, as a count of -1 does)
readNRepliesNullWhenEmpty(stack, wrap, length, raw) ==
  IF length = 0 THEN Deliver(stack, Null)
  ELSE Pending(Append(stack, [k |-> "n", wrap |-> wrap, need |-> length,
                              acc |-> <<>>, raw |-> raw]))

\* readNReplies(length, iterator, raw)
readNReplies(stack, wrap, length, raw) ==
  IF length = 0 THEN Complete(stack, wrap, <<>>)
  ELSE Pending(Append(stack, [k |-> "n", wrap |-> wrap, need |-> length,
                              acc |-> <<>>, raw |-> raw]))

AwaitLine(stack, wrap, raw) ==
  Pending(Append(stack, [k |-> "line", wrap |-> wrap, need |-> 0,
                         acc |-> <<>>, raw |-> raw]))

Doubled(num) == IF num.t = "number" THEN [num EXCEPT !.v = @ * 2] ELSE num

\* The switch of readReply on a non-empty first line `value`
ReplyHeader(stack, raw, value) ==
  LET line == Utf8Decode(SliceFrom(value, 1))
      prefix == value[1]
  IN CASE prefix \in {ARRAY_PREFIX, PUSH_PREFIX} ->
            IF NumberOf(line) = [t |-> "number", v |-> -1]
            THEN Deliver(stack, Null)
            ELSE readNReplies(stack, "array", LengthOf(NumberOf(line)), FALSE)
       [] prefix = ATTRIBUTE_PREFIX ->
            readNReplies(stack, "attribute", LengthOf(Doubled(NumberOf(line))), FALSE)
       [] prefix = BIG_NUMBER_PREFIX ->
            IF IsIntegerText(line)
            THEN Deliver(stack, [t |-> "bigint", v |-> NumberOf(line).v])
            ELSE Rejected(RejError("SyntaxError", "Cannot convert to a BigInt"))
       [] prefix = BLOB_ERROR_PREFIX -> AwaitLine(stack, "blob error", raw)
       [] prefix = BOOLEAN_PREFIX -> Deliver(stack, Bool(line = <<Ch_t>>))
       [] prefix \in {BULK_STRING_PREFIX, VERBATIM_STRING_PREFIX} ->
            IF NumberOf(line) = [t |-> "number", v |-> -1]
            THEN Deliver(stack, Null)
            ELSE AwaitLine(stack, "bulk string", raw)
       [] prefix \in {DOUBLE_PREFIX, INTEGER_PREFIX} ->
            IF line = <<105, 110, 102>> THEN Deliver(stack, [t |-> "Infinity"])
            ELSE IF line = <<45, 105, 110, 102>> THEN Deliver(stack, [t |-> "-Infinity"])
            ELSE Deliver(stack, NumberOf(line))
       [] prefix = ERROR_PREFIX -> Rejected(RejString(line))
       [] prefix = MAP_PREFIX ->
            readNReplies(stack, "map", LengthOf(Doubled(NumberOf(line))), FALSE)
       [] prefix = NULL_PREFIX -> Deliver(stack, Null)
       [] prefix = SET_PREFIX ->
            readNReplies(stack, "set", LengthOf(NumberOf(line)), raw)
       [] prefix = SIMPLE_STRING_PREFIX -> Deliver(stack, Str(line))
       [] OTHER -> Deliver(stack, Str(Utf8Decode(value)))

\* The raw argument of the readReply call that awaits the next line
RawHere(stack, raw) == IF stack = <<>> THEN raw ELSE Top(stack).raw

\* `const { value } = await iterator.next()` resolved, in the innermost
\* pending call: done and value are the iterator result (value is undefined,
\* here <<>>, when done)
OnNext(stack, raw, done, value) ==
  IF stack # <<>> /\ Top(stack).k = "line"
  THEN IF Top(stack).wrap = "blob error"
       THEN Rejected(RejString(Utf8Decode(value)))
       ELSE Deliver(Pop(stack),
                    IF Top(stack).raw
                    THEN (IF done THEN Undefined ELSE Bytes(value))
                    ELSE Str(Utf8Decode(value)))
  ELSE IF done THEN Rejected(UndefinedLength)
  ELSE IF Len(value) = 0 THEN Rejected(NoReplyReceived)
  ELSE ReplyHeader(stack, RawHere(stack, raw), value)

----------------------------------------------------------------------------
(* A reader: one readLines iterator and the readReply call in progress on  *)
(* it.  st is "idle" (no call), "awaiting", "resolved" or "rejected"; out  *)
(* the value or the reason of the last settled call.                       *)

NewReader ==
  [g |-> readLines, st |-> "idle", stack |-> <<>>, raw |-> FALSE, out |-> Null]

\* Run the reader until readReply settles or the generator blocks: each
\* iterator.next() that resolves is handed to readReply, which may call
\* next() again.
RECURSIVE Advance(_)
Advance(r) ==
  IF r.g.pc \in {"read", "spin"} THEN r
  ELSE LET d == OnNext(r.stack, r.raw, NextDone(r.g), NextValue(r.g))
           r1 == [r EXCEPT !.st = d.st, !.stack = d.stack, !.out = d.out]
       IN IF d.st = "awaiting"
          THEN Advance([r1 EXCEPT !.g = Resume(r.g)])
          ELSE r1

\* readReply(iterator, raw) is called on the reader's iterator
readReply(r, raw) ==
  Advance([r EXCEPT !.g = Resume(r.g), !.st = "awaiting", !.stack = <<>>,
                    !.raw = raw, !.out = Null])

\* The pending reader.read of the reader's generator returns bytes / null
OnRead(r, bytes) == Advance([r EXCEPT !.g = ReadBytes(r.g, bytes)])
OnEof(r) == Advance([r EXCEPT !.g = ReadNull(r.g)])

----------------------------------------------------------------------------
(* The server side of the connection: the replies it sends, their wire     *)
(* form, and the outcome each reply denotes                                *)

TextA == <<65>>
TextB == <<66>>
TextErr == <<69>>

Simple(text) == [t |-> "simple", v |-> text]
Error(text) == [t |-> "error", v |-> text]
Bulk(bytes) == [t |-> "bulk", v |-> bytes]
Verbatim(bytes) == [t |-> "verbatim", v |-> bytes]
BlobError(bytes) == [t |-> "blob error", v |-> bytes]
Integer(n) == [t |-> "integer", v |-> n]
Array(items) == [t |-> "array", v |-> items]
Push(items) == [t |-> "push", v |-> items]
Set(items) == [t |-> "set", v |-> items]
\* a map of the pairs k1, v1, k2, v2, ...
Map(items) == [t |-> "map", v |-> items]
\* an attribute with the pairs k1, v1, ... placed before the reply `of`
Attribute(items, of) == [t |-> "attribute", v |-> items, of |-> of]
\* the null array '*-1' and the null bulk string '$-1'
NullArray == [t |-> "null array", v |-> <<>>]
NullBulk == [t |-> "null bulk", v |-> <<>>]
\* a line without a type prefix
Inline(text) == [t |-> "inline", v |-> text]

\* bulk payloads: text, the empty string, and binary data holding CR and LF
Payloads == {<<97>>, <<>>, <<97, CR, LF, 98>>, <<CR>>}

\* the replies of the decoding harness
ReplyValues ==
  {Simple(TextA), Simple(TextB), Error(TextErr)}
  \cup {Bulk(p) : p \in Payloads}
  \cup {Verbatim(p) : p \in {<<97>>, CRLF}}
  \cup {BlobError(p) : p \in {TextErr, <<69, CR, LF, 82>>}}

\* the replies of the server the RedisClient talks to
ServerReplies == {Simple(TextA), Bulk(CRLF), Error(TextErr), BlobError(TextErr)}

LengthLine(prefix, bytes) ==
  <<prefix>> \o Utf8Encode(NatToString(Len(bytes))) \o CRLF \o bytes \o CRLF

CountLine(prefix, count) == <<prefix>> \o Utf8Encode(NatToString(count)) \o CRLF

\* the bytes the server sends for a reply, and for replies in a row
RECURSIVE Wire(_), WireAll(_)
Wire(rv) ==
  CASE rv.t = "simple" -> <<SIMPLE_STRING_PREFIX>> \o Utf8Encode(rv.v) \o CRLF
    [] rv.t = "error" -> <<ERROR_PREFIX>> \o Utf8Encode(rv.v) \o CRLF
    [] rv.t = "bulk" -> LengthLine(BULK_STRING_PREFIX, rv.v)
    [] rv.t = "verbatim" -> LengthLine(VERBATIM_STRING_PREFIX, rv.v)
    [] rv.t = "integer" -> <<INTEGER_PREFIX>> \o Utf8Encode(IntToString(rv.v)) \o CRLF
    [] rv.t = "null array" -> <<ARRAY_PREFIX>> \o Utf8Encode(IntToString(-1)) \o CRLF
    [] rv.t = "null bulk" -> <<BULK_STRING_PREFIX>> \o Utf8Encode(IntToString(-1)) \o CRLF
    [] rv.t = "inline" -> Utf8Encode(rv.v) \o CRLF
    [] rv.t = "array" -> CountLine(ARRAY_PREFIX, Len(rv.v)) \o WireAll(rv.v)
    [] rv.t = "push" -> CountLine(PUSH_PREFIX, Len(rv.v)) \o WireAll(rv.v)
    [] rv.t = "set" -> CountLine(SET_PREFIX, Len(rv.v)) \o WireAll(rv.v)
    [] rv.t = "map" -> CountLine(MAP_PREFIX, Len(rv.v) \div 2) \o WireAll(rv.v)
    [] rv.t = "attribute" ->
         CountLine(ATTRIBUTE_PREFIX, Len(rv.v) \div 2) \o WireAll(rv.v) \o Wire(rv.of)
    [] OTHER -> LengthLine(BLOB_ERROR_PREFIX, rv.v)

WireAll(rvs) == IF rvs = <<>> THEN <<>> ELSE Wire(Head(rvs)) \o WireAll(Tail(rvs))

IsErrorReply(rv) == rv.t \in {"error", "blob error"}
IsStringReply(rv) == rv.t \in {"bulk", "verbatim"}

\* the elements of a sequence, each once, in the order of first occurrence
RECURSIVE Distinct(_, _)
Distinct(items, acc) ==
  IF items = <<>> THEN acc
  ELSE Distinct(Tail(items),
                IF \E i \in 1..Len(acc) : acc[i] = Head(items) THEN acc
                ELSE Append(acc, Head(items)))

\* the key/value pairs of a sequence k1, v1, k2, v2, ... in that order
RECURSIVE Pairs(_)
Pairs(items) ==
  IF Len(items) < 2 THEN <<>>
  ELSE <<[key |-> KeyOf(items[1]), val |-> items[2]]>>
       \o Pairs(SubSeq(items, 3, Len(items)))

\* the outcome a reply denotes: its value, or the rejection with its message
RECURSIVE Denotes(_, _)
DenotesAll(rvs, raw) == [i \in 1..Len(rvs) |-> Denotes(rvs[i], raw).out]
Denotes(rv, raw) ==
  CASE rv.t = "simple" -> [st |-> "resolved", out |-> Str(rv.v)]
    [] rv.t = "error" -> [st |-> "rejected", out |-> RejString(rv.v)]
    [] rv.t = "blob error" -> [st |-> "rejected", out |-> RejString(Utf8Decode(rv.v))]
    [] rv.t = "integer" -> [st |-> "resolved", out |-> [t |-> "number", v |-> rv.v]]
    [] rv.t \in {"null array", "null bulk"} -> [st |-> "resolved", out |-> Null]
    [] rv.t = "inline" -> [st |-> "resolved", out |-> Str(rv.v)]
    [] rv.t \in {"array", "push"} ->
         [st |-> "resolved", out |-> Arr(DenotesAll(rv.v, raw))]
    [] rv.t = "set" ->
         [st |-> "resolved",
          out |-> [t |-> "set", v |-> Distinct(DenotesAll(rv.v, raw), <<>>)]]
    [] rv.t = "map" ->
         [st |-> "resolved",
          out |-> [t |-> "object", v |-> Pairs(DenotesAll(rv.v, raw))]]
    [] rv.t = "attribute" -> Denotes(rv.of, raw)
    [] OTHER -> [st |-> "resolved",
                 out |-> IF raw THEN Bytes(rv.v) ELSE Str(Utf8Decode(rv.v))]

\* bytes a reader's iterator has taken from the connection and not handed
\* out in a frame
Buffered(g) ==
  IF g.pc = "yield" THEN Len(g.chunks) - g.inspectIndex
  ELSE IF g.pc \in {"last", "done"} THEN 0
  ELSE Len(g.chunks)

----------------------------------------------------------------------------
(* Bounds                                                                  *)

\* calls made on the RedisClient
MaxOps == 2
\* replies in the byte stream of the decoding harness
MaxReplies == 2

\* the commands the callers send
CmdGet == <<StrArg(<<71, 69, 84>>), StrArg(<<107>>)>>
CmdIncr == <<StrArg(<<73, 78, 67, 82>>), NumArg(7)>>
Commands == {CmdGet}
Batches == {<<CmdGet, CmdIncr>>}

----------------------------------------------------------------------------
(* RedisClient: the queue                                                  *)
(*   st = "queued"    enqueued: #queue.then(task) has not run task yet     *)
(*        "writing"   task started, writeAll in progress                   *)
(*        "reading"   readReply / readNReplies in progress                 *)
(*        "fulfilled" / "rejected": the promise #enqueue returned settled  *)

NewOp(kind, cmds, raw) ==
  [kind |-> kind, cmds |-> cmds, raw |-> raw, st |-> "queued", out |-> Null,
   ran |-> FALSE, first |-> 0, nread |-> 0, left |-> 0, rd |-> NewReader]

\* #enqueue: this.#queue = this.#queue.then(task); return this.#queue
enqueue(op) == ops' = Append(ops, op)

\* (variant: #queue is never reassigned, every task is chained to the
\* initial resolved promise)
PrevStateInitial(i) == "fulfilled"

\* the state of the promise the i-th #enqueue chained its task to
PrevState(i) == IF i = 1 THEN "fulfilled" ELSE ops[i - 1].st

\* (variant: the task is called at once instead of being chained)
CanStartUnchained(i) == ops[i].st = "queued"

\* (variant: the task is chained for both outcomes, then(task, task))
CanStartOnceSettled(i) ==
  ops[i].st = "queued" /\ PrevState(i) \in {"fulfilled", "rejected"}

\* then(task) runs task once the previous promise of the chain is fulfilled
CanStart(i) == ops[i].st = "queued" /\ PrevState(i) = "fulfilled"

\* the request bytes an operation writes
RequestBytes(op) ==
  IF op.kind = "pipeline" THEN Concat(MapCreateRequest(op.cmds))
  ELSE createRequest(op.cmds[1])

LogWrite(i, bytes) == Append(log, [op |-> i, ev |-> "write", bytes |-> bytes])

\* a read is logged once per run of reads of the same reader
LogRead(i) ==
  IF log # <<>> /\ log[Len(log)].op = i /\ log[Len(log)].ev = "read"
  THEN log
  ELSE Append(log, [op |-> i, ev |-> "read", bytes |-> <<>>])

\* RedisClient.sendCommand(command, raw)
CallSend ==
  /\ Len(ops) < MaxOps
  /\ \E c \in Commands, raw \in BOOLEAN : enqueue(NewOp("send", <<c>>, raw))
  /\ UNCHANGED <<lis, wire, closed, inbox, answers, log, h, bench>>

\* RedisClient.writeCommand(command)
CallWrite ==
  /\ Len(ops) < MaxOps
  /\ \E c \in Commands : enqueue(NewOp("write", <<c>>, FALSE))
  /\ UNCHANGED <<lis, wire, closed, inbox, answers, log, h, bench>>

\* RedisClient.pipelineCommands(commands)
CallPipeline ==
  /\ Len(ops) < MaxOps
  /\ \E b \in Batches : enqueue(NewOp("pipeline", b, FALSE))
  /\ UNCHANGED <<lis, wire, closed, inbox, answers, log, h, bench>>

\* The task of the i-th operation starts: sendCommand, writeCommand and
\* pipelineCommands all begin with writeAll of the request bytes
TaskStart(i) ==
  /\ CanStart(i)
  /\ ops' = [ops EXCEPT ![i] = [@ EXCEPT !.st = "writing", !.ran = TRUE,
                                         !.first = Len(answers) + Len(inbox)]]
  /\ inbox' = inbox \o ops[i].cmds
  /\ log' = LogWrite(i, RequestBytes(ops[i]))
  /\ UNCHANGED <<lis, wire, closed, answers, h, bench>>

\* then(task) on a rejected promise: the task is not run and the promise
\* returned to the caller rejects with the same reason
TaskSkip(i) ==
  /\ ops[i].st = "queued"
  /\ PrevState(i) = "rejected"
  /\ ops' = [ops EXCEPT ![i] = [@ EXCEPT !.st = "rejected", !.out = ops[i - 1].out]]
  /\ UNCHANGED <<lis, wire, closed, inbox, answers, log, h, bench>>

\* The reader of an operation has advanced to r: the operation settles with
\* the reader, and its iterator is dropped with whatever it still buffers
Settle(op, r) ==
  IF r.st = "resolved"
  THEN [op EXCEPT !.st = "fulfilled", !.out = r.out, !.left = Buffered(r.g),
                  !.rd = NewReader]
  ELSE IF r.st = "rejected"
  THEN [op EXCEPT !.st = "rejected", !.out = r.out, !.left = Buffered(r.g),
                  !.rd = NewReader]
  ELSE [op EXCEPT !.rd = r]

\* readNReplies(length, iterator) called directly, as pipelineCommands does
StartReadN(r, length) ==
  LET d == readNReplies(<<>>, "array", length, FALSE)
      r1 == [r EXCEPT !.st = d.st, !.stack = d.stack, !.out = d.out, !.raw = FALSE]
  IN IF d.st = "awaiting" THEN Advance([r1 EXCEPT !.g = Resume(r.g)]) ELSE r1

\* (variant: writeCommand goes on to read a reply, as sendCommand does)
WriteDoneThenRead(i) ==
  /\ ops[i].st = "writing"
  /\ ops' = [ops EXCEPT ![i] =
       IF ops[i].kind = "pipeline"
       THEN Settle([@ EXCEPT !.st = "reading"], StartReadN(NewReader, Len(ops[i].cmds)))
       ELSE Settle([@ EXCEPT !.st = "reading"], readReply(NewReader, ops[i].raw))]
  /\ UNCHANGED <<lis, wire, closed, inbox, answers, log, h, bench>>

\* writeAll resolved: writeCommand is done; sendCommand calls
\* readReply(readLines(conn), raw), pipelineCommands calls
\* readNReplies(commands.length, readLines(conn))
WriteDone(i) ==
  /\ ops[i].st = "writing"
  /\ ops' = [ops EXCEPT ![i] =
       CASE ops[i].kind = "write" -> [@ EXCEPT !.st = "fulfilled", !.out = Undefined]
         [] ops[i].kind = "send" ->
              Settle([@ EXCEPT !.st = "reading"], readReply(NewReader, ops[i].raw))
         [] OTHER ->
              Settle([@ EXCEPT !.st = "reading"], StartReadN(NewReader, Len(ops[i].cmds)))]
  /\ UNCHANGED <<lis, wire, closed, inbox, answers, log, h, bench>>

\* reader.read(inspectArr) of the i-th operation's iterator returns: some
\* bytes of the wire, or null at end-of-stream
TaskRead(i) ==
  /\ ops[i].st = "reading"
  /\ ops[i].rd.g.pc = "read"
  /\ \/ /\ wire # <<>>
        /\ \E n \in 1..Min(Len(wire), InspectArrLength) :
             /\ ops' = [ops EXCEPT ![i] =
                  Settle([@ EXCEPT !.nread = @ + n], OnRead(ops[i].rd, SubSeq(wire, 1, n)))]
             /\ wire' = SliceFrom(wire, n)
     \/ /\ wire = <<>>
        /\ closed
        /\ ops' = [ops EXCEPT ![i] = Settle(@, OnEof(ops[i].rd))]
        /\ wire' = wire
  /\ log' = LogRead(i)
  /\ UNCHANGED <<lis, closed, inbox, answers, h, bench>>

\* The server answers the oldest unanswered command
ServerReply ==
  /\ inbox # <<>>
  /\ ~closed
  /\ \E rv \in ServerReplies :
       /\ wire' = wire \o Wire(rv)
       /\ answers' = Append(answers, rv)
  /\ inbox' = Tail(inbox)
  /\ UNCHANGED <<ops, lis, closed, log, h, bench>>

\* The server closes the connection
ServerClose ==
  /\ ~closed
  /\ closed' = TRUE
  /\ UNCHANGED <<ops, lis, wire, inbox, answers, log, h, bench>>

NoListener == [st |-> "none", raw |-> FALSE, outs |-> <<>>, nread |-> 0, rd |-> NewReader]
NoHarness == [outs |-> <<>>, used |-> <<>>, rd |-> NewReader]
NoBench == [k |-> "none"]

Init ==
  /\ ops = <<>>
  /\ lis = NoListener
  /\ wire = <<>>
  /\ closed = FALSE
  /\ inbox = <<>>
  /\ answers = <<>>
  /\ log = <<>>
  /\ h = NoHarness
  /\ bench = NoBench

Next ==
  \/ CallSend
  \/ CallWrite
  \/ CallPipeline
  \/ \E i \in 1..Len(ops) : TaskStart(i)
  \/ \E i \in 1..Len(ops) : TaskSkip(i)
  \/ \E i \in 1..Len(ops) : WriteDone(i)
  \/ \E i \in 1..Len(ops) : TaskRead(i)
  \/ ServerReply
  \/ ServerClose

Spec == Init /\ [][Next]_vars

----------------------------------------------------------------------------
(* RedisClient.readReplies: the listener.  It is not enqueued: it reads    *)
(* the connection through its own readLines iterator.                      *)
(*   st = "none"     no iterator                                           *)
(*        "idle"     suspended (not started, or at its yield)              *)
(*        "next"     inside next(): readReply in progress                  *)
(*        "done"     the generator has ended (readReply threw)             *)
(*        "dropped"  the caller has discarded the iterator                 *)

\* RedisClient.readReplies(raw)
LisCreate ==
  /\ lis.st \in {"none", "done", "dropped"}
  /\ \E raw \in BOOLEAN : lis' = [NoListener EXCEPT !.st = "idle", !.raw = raw]
  /\ UNCHANGED <<ops, wire, closed, inbox, answers, log, h, bench>>

\* `yield await readReply(iterator, raw)` with the reader advanced to r
LisSettle(l, r) ==
  IF r.st = "resolved"
  THEN [l EXCEPT !.st = "idle", !.outs = Append(@, r.out), !.rd = r]
  ELSE IF r.st = "rejected"
  THEN [l EXCEPT !.st = "done", !.rd = r]
  ELSE [l EXCEPT !.st = "next", !.rd = r]

\* the caller calls next() on the iterator
LisNext ==
  /\ lis.st = "idle"
  /\ lis' = LisSettle(lis, readReply(lis.rd, lis.raw))
  /\ UNCHANGED <<ops, wire, closed, inbox, answers, log, h, bench>>

\* reader.read(inspectArr) of the listener's iterator returns
LisRead ==
  /\ lis.st = "next"
  /\ lis.rd.g.pc = "read"
  /\ \/ /\ wire # <<>>
        /\ \E n \in 1..Min(Len(wire), InspectArrLength) :
             /\ lis' = LisSettle([lis EXCEPT !.nread = @ + n],
                                 OnRead(lis.rd, SubSeq(wire, 1, n)))
             /\ wire' = SliceFrom(wire, n)
     \/ /\ wire = <<>>
        /\ closed
        /\ lis' = LisSettle(lis, OnEof(lis.rd))
        /\ wire' = wire
  /\ log' = LogRead(0)
  /\ UNCHANGED <<ops, closed, inbox, answers, h, bench>>

\* the caller abandons the iterator between two yields
LisDrop ==
  /\ lis.st = "idle"
  /\ lis' = [lis EXCEPT !.st = "dropped"]
  /\ UNCHANGED <<ops, wire, closed, inbox, answers, log, h, bench>>

\* A client that subscribes with writeCommand and listens with readReplies
NextListen ==
  \/ CallWrite
  \/ \E i \in 1..Len(ops) : TaskStart(i)
  \/ \E i \in 1..Len(ops) : WriteDone(i)
  \/ ServerReply
  \/ ServerClose
  \/ LisCreate
  \/ LisNext
  \/ LisRead
  \/ LisDrop

SpecListen == Init /\ [][NextListen]_vars

----------------------------------------------------------------------------
(* The decoding harness: readReply called again and again on one readLines *)
(* iterator over a byte stream that holds MaxReplies replies at most and   *)
(* then ends, as the tests do with a Buffer                                *)

RECURSIVE SeqsUpTo(_, _)
SeqsUpTo(S, n) ==
  IF n = 0 THEN {<<>>}
  ELSE LET shorter == SeqsUpTo(S, n - 1)
       IN shorter \cup {Append(q, x) : q \in {q \in shorter : Len(q) = n - 1}, x \in S}

InitDecode ==
  /\ answers \in SeqsUpTo(ReplyValues, MaxReplies)
  /\ wire = WireAll(answers)
  /\ closed = TRUE
  /\ ops = <<>>
  /\ lis = NoListener
  /\ inbox = <<>>
  /\ log = <<>>
  /\ h = NoHarness
  /\ bench = NoBench

\* bytes of the stream handed out in frames so far
Used(r, rest) == Len(WireAll(answers)) - Len(rest) - Buffered(r.g)

\* The harness with its reader advanced to r and the stream cut to rest: a
\* settled call is recorded with its outcome and the stream position
HSettle(r, rest) ==
  IF r.st \in {"resolved", "rejected"}
  THEN [h EXCEPT !.rd = r,
                 !.outs = Append(@, [st |-> r.st, out |-> r.out, raw |-> r.raw]),
                 !.used = Append(@, Used(r, rest))]
  ELSE [h EXCEPT !.rd = r]

\* readReply(iterator, raw) is called, one call more than there are replies
\* at most
HCall ==
  /\ h.rd.st # "awaiting"
  /\ Len(h.outs) <= Len(answers)
  /\ \E raw \in BOOLEAN : h' = HSettle(readReply(h.rd, raw), wire)
  /\ UNCHANGED <<ops, lis, wire, closed, inbox, answers, log, bench>>

\* reader.read(inspectArr) returns bytes of the stream, or null at its end
HRead ==
  /\ h.rd.st = "awaiting"
  /\ h.rd.g.pc = "read"
  /\ \/ /\ wire # <<>>
        /\ \E n \in 1..Min(Len(wire), InspectArrLength) :
             /\ h' = HSettle(OnRead(h.rd, SubSeq(wire, 1, n)), SliceFrom(wire, n))
             /\ wire' = SliceFrom(wire, n)
     \/ /\ wire = <<>>
        /\ h' = HSettle(OnEof(h.rd), wire)
        /\ wire' = wire
  /\ UNCHANGED <<ops, lis, closed, inbox, answers, log, bench>>

NextDecode == HCall \/ HRead

SpecDecode == InitDecode /\ [][NextDecode]_vars

----------------------------------------------------------------------------
(* The line readers on their own: readLines, and the LineStream transform  *)
(* of src/line_stream.ts, each fed a finite byte stream cut into reads     *)
(* (chunks) in every possible way and then ended.                          *)
(*   bench.g       the readLines generator                                 *)
(*   bench.frames  the frames readLines has yielded                        *)
(*   bench.ls      the LineStream: the bytes of the stream it has been     *)
(*                 given, its carryOver, the lines it has enqueued         *)

\* length of the byte stream
MaxStreamLen == 4
\* the bytes of the stream: a letter, CR and LF
StreamBytes == {97, CR, LF}

\* indexOfCrlf(chunk, fromIndex): 0-based, -1 when there is none
RECURSIVE indexOfCrlf(_, _)
indexOfCrlf(chunk, fromIndex) ==
  IF fromIndex >= Len(chunk) THEN -1
  ELSE IF /\ chunk[fromIndex + 1] = CRLF[1]
          /\ fromIndex + 1 < Len(chunk)
          /\ chunk[fromIndex + 2] = CRLF[2]
       THEN fromIndex
       ELSE indexOfCrlf(chunk, fromIndex + 1)

\* the while loop of transform on `buffer`, from startSearchIndex on
RECURSIVE TransformLoop(_, _, _)
TransformLoop(ls, buffer, startSearchIndex) ==
  LET separatorIndex == indexOfCrlf(buffer, startSearchIndex)
  IN IF separatorIndex = -1
     THEN [ls EXCEPT !.carryOver = SliceFrom(buffer, startSearchIndex)]
     ELSE TransformLoop(
            [ls EXCEPT !.out = Append(@, Slice(buffer, startSearchIndex, separatorIndex))],
            buffer, separatorIndex + Len(CRLF))

\* LineStream: transform(chunk, controller)
transform(ls, chunk) == TransformLoop(ls, ls.carryOver \o chunk, 0)

\* LineStream: flush(controller)
flush(ls) ==
  IF Len(ls.carryOver) > 0
  THEN [ls EXCEPT !.out = Append(@, ls.carryOver), !.carryOver = <<>>, !.flushed = TRUE]
  ELSE [ls EXCEPT !.flushed = TRUE]

NewLineStream == [pos |-> 0, carryOver |-> <<>>, out |-> <<>>, flushed |-> FALSE]

InitLines ==
  /\ \E stream \in SeqsUpTo(StreamBytes, MaxStreamLen) :
       /\ wire = stream
       /\ bench = [k |-> "lines", stream |-> stream, g |-> readLines,
                   frames |-> <<>>, ls |-> NewLineStream]
  /\ closed = TRUE
  /\ ops = <<>>
  /\ lis = NoListener
  /\ inbox = <<>>
  /\ answers = <<>>
  /\ log = <<>>
  /\ h = NoHarness

\* the generator has run to g: a frame it stopped at is recorded
Yielded(b, g) ==
  [b EXCEPT !.g = g,
            !.frames = IF g.pc \in {"yield", "last"} THEN Append(@, NextValue(g)) ELSE @]

\* the consumer calls next() on the readLines iterator
LinesNext ==
  /\ bench.k = "lines"
  /\ bench.g.pc \in {"start", "yield", "last"}
  /\ bench' = Yielded(bench, Resume(bench.g))
  /\ UNCHANGED <<ops, lis, wire, closed, inbox, answers, log, h>>

\* reader.read(inspectArr) returns the next bytes of the stream, or null
LinesRead ==
  /\ bench.k = "lines"
  /\ bench.g.pc = "read"
  /\ \/ /\ wire # <<>>
        /\ \E n \in 1..Min(Len(wire), InspectArrLength) :
             /\ bench' = Yielded(bench, ReadBytes(bench.g, SubSeq(wire, 1, n)))
             /\ wire' = SliceFrom(wire, n)
     \/ /\ wire = <<>>
        /\ bench' = Yielded(bench, ReadNull(bench.g))
        /\ wire' = wire
  /\ UNCHANGED <<ops, lis, closed, inbox, answers, log, h>>

\* the next chunk of the stream is piped through the LineStream
LineStreamTransform ==
  /\ bench.k = "lines"
  /\ bench.ls.pos < Len(bench.stream)
  /\ \E n \in 1..(Len(bench.stream) - bench.ls.pos) :
       bench' = [bench EXCEPT !.ls =
         [transform(@, SubSeq(bench.stream, bench.ls.pos + 1, bench.ls.pos + n))
            EXCEPT !.pos = @ + n]]
  /\ UNCHANGED <<ops, lis, wire, closed, inbox, answers, log, h>>

\* the stream has ended: the LineStream is flushed
LineStreamFlush ==
  /\ bench.k = "lines"
  /\ bench.ls.pos = Len(bench.stream)
  /\ ~bench.ls.flushed
  /\ bench' = [bench EXCEPT !.ls = flush(@)]
  /\ UNCHANGED <<ops, lis, wire, closed, inbox, answers, log, h>>

NextLines == LinesNext \/ LinesRead \/ LineStreamTransform \/ LineStreamFlush

SpecLines == InitLines /\ [][NextLines]_vars

----------------------------------------------------------------------------
(* The decoding harness on aggregate replies: one array, push, attribute,  *)
(* map or set reply, alone or followed by a simple string, in a Buffer     *)

TextK == <<107>>
Text1 == <<49>>

\* arrays and pushes: empty, flat, nested, holding an attribute, and
\* holding a bulk string with CR LF in its payload
ArrayReplies ==
  {Array(<<>>),
   Array(<<Integer(1), Simple(TextA)>>),
   Array(<<Array(<<Integer(1)>>), Bulk(<<97>>)>>),
   Push(<<Simple(TextA), Integer(2)>>),
   Array(<<Attribute(<<Simple(TextK), Integer(1)>>, Integer(2)), Simple(TextA)>>),
   Array(<<Bulk(<<97, CR, LF, 98>>)>>)}

\* attributes: without pairs, with a pair, and with a bulk string with
\* CR LF among the attribute's data
AttributeReplies ==
  {Attribute(<<>>, Simple(TextA)),
   Attribute(<<Simple(TextK), Integer(1)>>, Simple(TextA)),
   Attribute(<<Simple(TextK), Array(<<Integer(1)>>)>>, Bulk(<<97>>)),
   Attribute(<<Simple(TextK), Bulk(CRLF)>>, Simple(TextA))}

\* maps: text keys, a key that is an integer index, the same key twice, a
\* bulk string as value
MapReplies ==
  {Map(<<>>),
   Map(<<Simple(TextK), Bulk(<<97>>)>>),
   Map(<<Simple(TextA), Integer(1), Simple(TextB), Integer(2)>>),
   Map(<<Simple(TextB), Integer(1), Simple(Text1), Integer(2)>>),
   Map(<<Simple(TextA), Integer(1), Simple(TextA), Integer(2)>>)}

\* sets: distinct elements in two orders, equal primitives, equal arrays, a
\* bulk string as element
SetReplies ==
  {Set(<<Simple(TextA), Integer(1)>>),
   Set(<<Bulk(<<97>>)>>),
   Set(<<Integer(1), Simple(TextA)>>),
   Set(<<Simple(TextA), Integer(1), Simple(TextA)>>),
   Set(<<Array(<<Integer(1)>>), Array(<<Integer(1)>>)>>)}

AggregateReplies == ArrayReplies \cup AttributeReplies \cup MapReplies \cup SetReplies

InitAggregate ==
  /\ \E a \in AggregateReplies : answers \in {<<a>>, <<a, Simple(TextB)>>}
  /\ wire = WireAll(answers)
  /\ closed = TRUE
  /\ ops = <<>>
  /\ lis = NoListener
  /\ inbox = <<>>
  /\ log = <<>>
  /\ h = NoHarness
  /\ bench = NoBench

SpecAggregate == InitAggregate /\ [][NextDecode]_vars

\* readReply(iterator, raw) on a fresh iterator over a Buffer that hands
\* out `bytes` in one read and then ends
DecodeBuffer(bytes, raw) ==
  LET r0 == readReply(NewReader, raw)
      r1 == IF bytes = <<>> THEN OnEof(r0) ELSE OnRead(r0, bytes)
  IN IF r1.st = "awaiting" /\ r1.g.pc = "read" THEN OnEof(r1) ELSE r1

----------------------------------------------------------------------------
(* The earlier readReply of src/mod.ts (lines 80-282), the one that reads  *)
(* streamed replies.  Its iterator is readDelim(conn, CRLF), here the      *)
(* sequence of the lines still to come; a result is the settled promise    *)
(* with the lines left in the iterator.                                    *)

STREAMED_REPLY_START_DELIMITER == 63
STREAMED_STRING_END_DELIMITER == <<59, 48>>
STREAMED_AGGREGATE_END_DELIMITER == <<46>>
ChSemicolon == 59

Ok(v, rest) == [st |-> "resolved", out |-> v, rest |-> rest]
Fail(reason, rest) == [st |-> "rejected", out |-> reason, rest |-> rest]

removePrefix(line) == Utf8Decode(SliceFrom(line, 1))

isSteamedReply(line) == Len(line) >= 2 /\ line[2] = STREAMED_REPLY_START_DELIMITER

readNumber(line) ==
  LET number == removePrefix(line)
  IN IF number = <<105, 110, 102>> THEN [t |-> "Infinity"]
     ELSE IF number = <<45, 105, 110, 102>> THEN [t |-> "-Infinity"]
     ELSE NumberOf(number)

toObject(array) == FromEntries(array, <<>>)

\* .filter((line) => !line.startsWith(";")).join("")
RECURSIVE FilterJoin(_)
FilterJoin(replies) ==
  IF replies = <<>> THEN <<>>
  ELSE (IF Head(replies).v # <<>> /\ Head(replies).v[1] = ChSemicolon
        THEN <<>> ELSE Head(replies).v) \o FilterJoin(Tail(replies))

\* what readReply0 does with the array read for an aggregate
Wrapped(wrap, array) ==
  CASE wrap = "map" -> toObject(array)
    [] wrap = "set" -> NewSet(array, <<>>)
    [] OTHER -> Arr(array)

WrapOf(prefix) ==
  IF prefix = MAP_PREFIX THEN "map" ELSE IF prefix = SET_PREFIX THEN "set" ELSE "array"

RECURSIVE readReply0(_), readNReplies0(_, _, _), readStreamedReply(_, _, _)

\* readNReplies(length, iterator): the for loop, `replies` read so far
readNReplies0(length, lines, replies) ==
  IF Len(replies) >= length THEN Ok(replies, lines)
  ELSE LET r == readReply0(lines)
       IN IF r.st = "rejected" THEN r
          ELSE readNReplies0(length, r.rest, Append(replies, r.out))

\* readStreamedReply(delimiter, iterator): the while loop
readStreamedReply(delimiter, lines, replies) ==
  LET r == readReply0(lines)
  IN IF r.st = "rejected" THEN r
     ELSE IF r.out = Str(delimiter) THEN Ok(replies, r.rest)
     ELSE readStreamedReply(delimiter, r.rest, Append(replies, r.out))

\* readStreamedString(iterator)
readStreamedString(lines) ==
  LET r == readStreamedReply(STREAMED_STRING_END_DELIMITER, lines, <<>>)
  IN IF r.st = "rejected" THEN r
     ELSE IF \E i \in 1..Len(r.out) : r.out[i].t # "string"
     THEN Fail(RejError("TypeError", "line.startsWith is not a function"), r.rest)
     ELSE Ok(Str(FilterJoin(r.out)), r.rest)

\* readReply(iterator) of lines 238-282
readReply0(lines) ==
  IF lines = <<>>
  THEN Fail(UndefinedLength, lines)
  ELSE
  LET value == Head(lines)
      rest == Tail(lines)
      prefix == IF value = <<>> THEN 0 ELSE value[1]
      length == readNumber(value)
  IN CASE prefix \in {ARRAY_PREFIX, PUSH_PREFIX, SET_PREFIX, MAP_PREFIX} ->
            LET r == IF isSteamedReply(value)
                     THEN readStreamedReply(STREAMED_AGGREGATE_END_DELIMITER, rest, <<>>)
                     ELSE readNReplies0(
                            LengthOf(IF prefix = MAP_PREFIX THEN Doubled(length) ELSE length),
                            rest, <<>>)
            IN IF ~isSteamedReply(value) /\ prefix # MAP_PREFIX
                  /\ length = [t |-> "number", v |-> -1]
               THEN Ok(IF prefix = SET_PREFIX THEN NewSet(<<>>, <<>>) ELSE Null, rest)
               ELSE IF r.st = "rejected" THEN r
               ELSE Ok(Wrapped(WrapOf(prefix), r.out), r.rest)
       [] prefix = ATTRIBUTE_PREFIX ->
            LET r == readNReplies0(LengthOf(Doubled(length)), rest, <<>>)
            IN IF r.st = "rejected" THEN r ELSE readReply0(r.rest)
       [] prefix = BIG_NUMBER_PREFIX ->
            IF IsIntegerText(removePrefix(value))
            THEN Ok([t |-> "bigint", v |-> NumberOf(removePrefix(value)).v], rest)
            ELSE Fail(RejError("SyntaxError", "Cannot convert to a BigInt"), rest)
       [] prefix = BLOB_ERROR_PREFIX ->
            IF rest = <<>> THEN Fail(RejString(<<>>), rest)
            ELSE Fail(RejString(Utf8Decode(Head(rest))), Tail(rest))
       [] prefix = BOOLEAN_PREFIX -> Ok(Bool(removePrefix(value) = <<Ch_t>>), rest)
       [] prefix \in {BULK_STRING_PREFIX, VERBATIM_STRING_PREFIX} ->
            IF isSteamedReply(value) THEN readStreamedString(rest)
            ELSE IF length = [t |-> "number", v |-> -1] THEN Ok(Null, rest)
            ELSE IF rest = <<>> THEN Ok(Str(<<>>), rest)
            ELSE Ok(Str(Utf8Decode(Head(rest))), Tail(rest))
       [] prefix \in {DOUBLE_PREFIX, INTEGER_PREFIX} -> Ok(length, rest)
       [] prefix = ERROR_PREFIX -> Fail(RejString(removePrefix(value)), rest)
       [] prefix = NULL_PREFIX -> Ok(Null, rest)
       [] prefix = SIMPLE_STRING_PREFIX -> Ok(Str(removePrefix(value)), rest)
       [] OTHER -> Ok(Str(Utf8Decode(value)), rest)

\* elements sent between the header of a streamed reply and its end
MaxElements == 2

\* the lines of a reply, as readDelim yields them
RECURSIVE Lines(_), LinesAll(_)
Lines(rv) ==
  CASE rv.t = "simple" -> <<<<SIMPLE_STRING_PREFIX>> \o Utf8Encode(rv.v)>>
    [] rv.t = "integer" -> <<<<INTEGER_PREFIX>> \o Utf8Encode(IntToString(rv.v))>>
    [] rv.t = "array" ->
         <<<<ARRAY_PREFIX>> \o Utf8Encode(NatToString(Len(rv.v)))>> \o LinesAll(rv.v)
    [] OTHER -> <<<<BULK_STRING_PREFIX>> \o Utf8Encode(NatToString(Len(rv.v))), rv.v>>

LinesAll(rvs) == IF rvs = <<>> THEN <<>> ELSE Lines(Head(rvs)) \o LinesAll(Tail(rvs))

\* the chunks of a streamed string: ';<len>' and the payload, for each
RECURSIVE ChunkLines(_)
ChunkLines(payloads) ==
  IF payloads = <<>> THEN <<>>
  ELSE <<<<ChSemicolon>> \o Utf8Encode(NatToString(Len(Head(payloads)))), Head(payloads)>>
       \o ChunkLines(Tail(payloads))

\* elements of streamed aggregates: an integer, a text, an array, and the
\* simple string and the bulk string whose text is '.'
StreamedElements ==
  {Integer(1), Simple(TextA), Array(<<Integer(1)>>),
   Simple(STREAMED_AGGREGATE_END_DELIMITER), Bulk(STREAMED_AGGREGATE_END_DELIMITER)}

\* payloads of the chunks of streamed strings: text, text that starts with
\* ';', text that starts with a type prefix, and the text ';0'
ChunkPayloads == {<<72, 101>>, <<108>>, <<59, 120>>, <<43, 97>>, <<58, 49>>, <<59, 48>>}

StreamedPrefixes == {ARRAY_PREFIX, PUSH_PREFIX, SET_PREFIX, MAP_PREFIX}

InitStreamed ==
  /\ \/ \E prefix \in StreamedPrefixes, elems \in SeqsUpTo(StreamedElements, MaxElements) :
          bench = [k |-> "streamed", prefix |-> prefix, elems |-> elems,
                   lines |-> <<<<prefix, STREAMED_REPLY_START_DELIMITER>>>>
                             \o LinesAll(elems)
                             \o <<STREAMED_AGGREGATE_END_DELIMITER>>,
                   res |-> Null]
     \/ \E payloads \in SeqsUpTo(ChunkPayloads, MaxElements) :
          bench = [k |-> "streamed", prefix |-> BULK_STRING_PREFIX, elems |-> payloads,
                   lines |-> <<<<BULK_STRING_PREFIX, STREAMED_REPLY_START_DELIMITER>>>>
                             \o ChunkLines(payloads)
                             \o <<STREAMED_STRING_END_DELIMITER>>,
                   res |-> Null]
  /\ wire = <<>>
  /\ closed = TRUE
  /\ ops = <<>>
  /\ lis = NoListener
  /\ inbox = <<>>
  /\ answers = <<>>
  /\ log = <<>>
  /\ h = NoHarness

\* readReply(iterator) is called on the lines and settles
StreamedDecode ==
  /\ bench.k = "streamed"
  /\ bench.res = Null
  /\ bench' = [bench EXCEPT !.res = readReply0(bench.lines)]
  /\ UNCHANGED <<ops, lis, wire, closed, inbox, answers, log, h>>

SpecStreamed == InitStreamed /\ [][StreamedDecode]_vars

----------------------------------------------------------------------------
(* The decoding harness on null and empty replies: '*-1', '*0', '$-1' and  *)
(* '$0' with its empty payload, MaxReplies of them at most, in a Buffer    *)

NullReplies == {NullArray, Array(<<>>), NullBulk, Bulk(<<>>)}

InitNulls ==
  /\ answers \in SeqsUpTo(NullReplies, MaxReplies)
  /\ wire = WireAll(answers)
  /\ closed = TRUE
  /\ ops = <<>>
  /\ lis = NoListener
  /\ inbox = <<>>
  /\ log = <<>>
  /\ h = NoHarness
  /\ bench = NoBench

SpecNulls == InitNulls /\ [][NextDecode]_vars

----------------------------------------------------------------------------
(* createRequest on its own: a command of MaxArgs arguments at most, each  *)
(* given with the bytes of its UTF-8 form written out                      *)

\* arguments of a command
MaxArgs == 2

\* text (ASCII, empty, two-byte characters, ten characters, holding CR LF),
\* numbers (positive, negative, zero) and binary data, with their bytes
RequestArgs ==
  {[arg |-> StrArg(<<76, 76, 69, 78>>), utf8 |-> <<76, 76, 69, 78>>],
   [arg |-> StrArg(<<>>), utf8 |-> <<>>],
   [arg |-> StrArg(<<233, 97>>), utf8 |-> <<195, 169, 97>>],
   [arg |-> StrArg(<<48, 49, 50, 51, 52, 53, 54, 55, 56, 57>>),
    utf8 |-> <<48, 49, 50, 51, 52, 53, 54, 55, 56, 57>>],
   [arg |-> StrArg(<<97, CR, LF>>), utf8 |-> <<97, CR, LF>>],
   [arg |-> NumArg(42), utf8 |-> <<52, 50>>],
   [arg |-> NumArg(-7), utf8 |-> <<45, 55>>],
   [arg |-> NumArg(0), utf8 |-> <<48>>],
   [arg |-> BinArg(<<255, 0, CR, LF>>), utf8 |-> <<255, 0, CR, LF>>]}

InitRequest ==
  /\ \E given \in SeqsUpTo(RequestArgs, MaxArgs) :
       bench = [k |-> "request",
                command |-> [i \in 1..Len(given) |-> given[i].arg],
                utf8 |-> [i \in 1..Len(given) |-> given[i].utf8],
                done |-> FALSE, request |-> <<>>]
  /\ wire = <<>>
  /\ closed = FALSE
  /\ ops = <<>>
  /\ lis = NoListener
  /\ inbox = <<>>
  /\ answers = <<>>
  /\ log = <<>>
  /\ h = NoHarness

\* createRequest(command) is called
RequestCreate ==
  /\ bench.k = "request"
  /\ ~bench.done
  /\ bench' = [bench EXCEPT !.done = TRUE, !.request = createRequest(bench.command)]
  /\ UNCHANGED <<ops, lis, wire, closed, inbox, answers, log, h>>

SpecRequest == InitRequest /\ [][RequestCreate]_vars

----------------------------------------------------------------------------
(* Callers that stop waiting: sendCommand calls whose callers may give     *)
(* up (a deadline around the promise, as in the README) before the promise *)
(* settles.  Nothing of the client changes when a caller gives up.         *)
(*   bench.gaveUp  the calls whose caller has stopped waiting              *)

InitAbandon ==
  /\ ops = <<>>
  /\ lis = NoListener
  /\ wire = <<>>
  /\ closed = FALSE
  /\ inbox = <<>>
  /\ answers = <<>>
  /\ log = <<>>
  /\ h = NoHarness
  /\ bench = [k |-> "callers", gaveUp |-> {}]

\* deadline(redisClient.sendCommand(...), ms) rejects: the caller of the
\* i-th call stops waiting, the promise and its task are left as they are
Abandon(i) ==
  /\ bench.k = "callers"
  /\ ops[i].st \notin {"fulfilled", "rejected"}
  /\ i \notin bench.gaveUp
  /\ bench' = [bench EXCEPT !.gaveUp = @ \cup {i}]
  /\ UNCHANGED <<ops, lis, wire, closed, inbox, answers, log, h>>

NextAbandon ==
  \/ CallSend
  \/ \E i \in 1..Len(ops) : Abandon(i)
  \/ \E i \in 1..Len(ops) : TaskStart(i)
  \/ \E i \in 1..Len(ops) : TaskSkip(i)
  \/ \E i \in 1..Len(ops) : WriteDone(i)
  \/ \E i \in 1..Len(ops) : TaskRead(i)
  \/ ServerReply

SpecAbandon == InitAbandon /\ [][NextAbandon]_vars

----------------------------------------------------------------------------
(* The decoding harness on a truncated stream: one aggregate or bulk       *)
(* string reply whose bytes end after its header line and before the last  *)
(* byte of its data, in a Buffer                                           *)
(*   bench.cut  the number of bytes of the reply that arrived              *)

TruncatedReplies ==
  {Bulk(<<97, 98>>),
   Verbatim(<<97, 98>>),
   Array(<<Integer(1), Integer(2)>>),
   Push(<<Simple(TextA), Bulk(<<97>>)>>),
   Set(<<Integer(1), Integer(2)>>),
   Map(<<Simple(TextK), Bulk(<<97>>)>>)}

\* the length of the first line of bytes, its CRLF included
HeaderLength(bytes) == CHOOSE n \in 2..Len(bytes) :
  /\ bytes[n - 1] = CR /\ bytes[n] = LF
  /\ \A m \in 2..(n - 1) : ~(bytes[m - 1] = CR /\ bytes[m] = LF)

InitTruncated ==
  /\ \E rv \in TruncatedReplies :
       /\ answers = <<rv>>
       /\ \E cut \in HeaderLength(Wire(rv))..(Len(Wire(rv)) - 3) :
            /\ wire = SubSeq(Wire(rv), 1, cut)
            /\ bench = [k |-> "truncated", cut |-> cut]
  /\ closed = TRUE
  /\ ops = <<>>
  /\ lis = NoListener
  /\ inbox = <<>>
  /\ log = <<>>
  /\ h = NoHarness

SpecTruncated == InitTruncated /\ [][NextDecode]_vars

----------------------------------------------------------------------------
(* The decoding harness on error replies: '-' lines and blob errors whose  *)
(* messages start with an error code, are empty, hold a character outside  *)
(* ASCII, or (blob errors) hold CR LF                                      *)

\* 'ERR a'
TextErrCode == <<69, 82, 82, 32, 97>>

ErrorReplies ==
  {Error(TextErrCode), Error(<<>>), Error(<<233>>), Error(<<45, 69>>),
   BlobError(TextErrCode), BlobError(<<195, 169>>), BlobError(<<69, CR, LF, 82>>),
   Simple(TextA)}

InitErrors ==
  /\ answers \in SeqsUpTo(ErrorReplies, MaxReplies)
  /\ wire = WireAll(answers)
  /\ closed = TRUE
  /\ ops = <<>>
  /\ lis = NoListener
  /\ inbox = <<>>
  /\ log = <<>>
  /\ h = NoHarness
  /\ bench = NoBench

SpecErrors == InitErrors /\ [][NextDecode]_vars

----------------------------------------------------------------------------
(* Integer replies: ':<n>' for an n of the 64-bit signed range, given as   *)
(* its decimal text, in a Buffer                                           *)

\* 0, 42, -7, 2^31, 2^53 - 1, 2^53, 2^53 + 1, 2^53 + 2, 2^53 + 3,
\* -(2^53 + 1), 2^63 - 1, 2^63 - 2, -2^63, -(2^63 - 1)
IntegerTexts ==
  {<<48>>, <<52, 50>>, <<45, 55>>,
   <<50, 49, 52, 55, 52, 56, 51, 54, 52, 56>>,
   <<57, 48, 48, 55, 49, 57, 57, 50, 53, 52, 55, 52, 48, 57, 57, 49>>,
   <<57, 48, 48, 55, 49, 57, 57, 50, 53, 52, 55, 52, 48, 57, 57, 50>>,
   <<57, 48, 48, 55, 49, 57, 57, 50, 53, 52, 55, 52, 48, 57, 57, 51>>,
   <<57, 48, 48, 55, 49, 57, 57, 50, 53, 52, 55, 52, 48, 57, 57, 52>>,
   <<57, 48, 48, 55, 49, 57, 57, 50, 53, 52, 55, 52, 48, 57, 57, 53>>,
   <<45, 57, 48, 48, 55, 49, 57, 57, 50, 53, 52, 55, 52, 48, 57, 57, 51>>,
   <<57, 50, 50, 51, 51, 55, 50, 48, 51, 54, 56, 53, 52, 55, 55, 53, 56, 48, 55>>,
   <<57, 50, 50, 51, 51, 55, 50, 48, 51, 54, 56, 53, 52, 55, 55, 53, 56, 48, 54>>,
   <<45, 57, 50, 50, 51, 51, 55, 50, 48, 51, 54, 56, 53, 52, 55, 55, 53, 56, 48, 56>>,
   <<45, 57, 50, 50, 51, 51, 55, 50, 48, 51, 54, 56, 53, 52, 55, 55, 53, 56, 48, 55>>}

InitInteger ==
  /\ \E text \in IntegerTexts :
       /\ wire = <<INTEGER_PREFIX>> \o Utf8Encode(text) \o CRLF
       /\ bench = [k |-> "integer", text |-> text]
  /\ answers = <<>>
  /\ closed = TRUE
  /\ ops = <<>>
  /\ lis = NoListener
  /\ inbox = <<>>
  /\ log = <<>>
  /\ h = NoHarness

SpecInteger == InitInteger /\ [][NextDecode]_vars

----------------------------------------------------------------------------
(* One client used for commands and for listening: sendCommand calls go    *)
(* through the queue, the iterator of readReplies reads the same           *)
(* connection on its own                                                   *)

NextShared ==
  \/ CallSend
  \/ \E i \in 1..Len(ops) : TaskStart(i)
  \/ \E i \in 1..Len(ops) : TaskSkip(i)
  \/ \E i \in 1..Len(ops) : WriteDone(i)
  \/ \E i \in 1..Len(ops) : TaskRead(i)
  \/ ServerReply
  \/ LisCreate
  \/ LisNext
  \/ LisRead

SpecShared == Init /\ [][NextShared]_vars

----------------------------------------------------------------------------
(* A server that also sends messages nobody asked for (pub/sub, client     *)
(* tracking) to a client that sends commands with sendCommand              *)
(*   bench.pushed  for each pushed message, in the order sent, the number  *)
(*                 of command replies the server had sent before it        *)

\* the message the server pushes: '>1\r\n+B\r\n'
PushedMessage == Push(<<Simple(TextB)>>)

InitPushed ==
  /\ ops = <<>>
  /\ lis = NoListener
  /\ wire = <<>>
  /\ closed = FALSE
  /\ inbox = <<>>
  /\ answers = <<>>
  /\ log = <<>>
  /\ h = NoHarness
  /\ bench = [k |-> "pushed", pushed |-> <<>>]

\* The server sends a message of its own
ServerPush ==
  /\ bench.k = "pushed"
  /\ ~closed
  /\ Len(bench.pushed) < MaxReplies
  /\ wire' = wire \o Wire(PushedMessage)
  /\ bench' = [bench EXCEPT !.pushed = Append(@, Len(answers))]
  /\ UNCHANGED <<ops, lis, closed, inbox, answers, log, h>>

NextPushed ==
  \/ CallSend
  \/ \E i \in 1..Len(ops) : TaskStart(i)
  \/ \E i \in 1..Len(ops) : TaskSkip(i)
  \/ \E i \in 1..Len(ops) : WriteDone(i)
  \/ \E i \in 1..Len(ops) : TaskRead(i)
  \/ ServerReply
  \/ ServerPush

SpecPushed == InitPushed /\ [][NextPushed]_vars

----------------------------------------------------------------------------
(* readLines with a consumer that keeps calling next() and a reader whose  *)
(* every read returns: the stream is finite, so each read gives bytes or,  *)
(* at its end, null                                                        *)

SpecLinesFair ==
  InitLines /\ [][NextLines]_vars /\ WF_vars(LinesNext) /\ WF_vars(LinesRead)

----------------------------------------------------------------------------
(* The decoding harness on streams that hold lines without a type prefix,  *)
(* the empty line among them, in a Buffer                                  *)

FrameReplies == {Inline(<<>>), Inline(TextA), Simple(TextA), Bulk(<<>>)}

InitFrames ==
  /\ answers \in SeqsUpTo(FrameReplies, MaxReplies)
  /\ wire = WireAll(answers)
  /\ closed = TRUE
  /\ ops = <<>>
  /\ lis = NoListener
  /\ inbox = <<>>
  /\ log = <<>>
  /\ h = NoHarness
  /\ bench = [k |-> "frames"]

SpecFrames == InitFrames /\ [][NextDecode]_vars

----------------------------------------------------------------------------
(* The RedisClient with its scheduling: every started write completes,     *)
(* every read returns (the server answers the commands it was sent and in  *)
(* the end closes the connection), and the promise jobs of the queue run.  *)
(* The values the server stores are binary safe: a reply may be a bulk     *)
(* string holding a carriage return.                                       *)

\* The server answers the oldest unanswered command with stored binary data
ServerReplyBinary ==
  /\ inbox # <<>>
  /\ ~closed
  /\ wire' = wire \o Wire(Bulk(<<CR>>))
  /\ answers' = Append(answers, Bulk(<<CR>>))
  /\ inbox' = Tail(inbox)
  /\ UNCHANGED <<ops, lis, closed, log, h, bench>>

NextFair ==
  \/ CallSend
  \/ CallWrite
  \/ CallPipeline
  \/ \E i \in 1..Len(ops) : TaskStart(i)
  \/ \E i \in 1..Len(ops) : TaskSkip(i)
  \/ \E i \in 1..Len(ops) : WriteDone(i)
  \/ \E i \in 1..Len(ops) : TaskRead(i)
  \/ ServerReply
  \/ ServerReplyBinary
  \/ ServerClose

SpecFair ==
  /\ Init
  /\ [][NextFair]_vars
  /\ WF_vars(\E i \in 1..Len(ops) : TaskStart(i))
  /\ WF_vars(\E i \in 1..Len(ops) : TaskSkip(i))
  /\ WF_vars(\E i \in 1..Len(ops) : WriteDone(i))
  /\ WF_vars(\E i \in 1..Len(ops) : TaskRead(i))
  /\ WF_vars(ServerReply \/ ServerReplyBinary)
  /\ WF_vars(ServerClose)

----------------------------------------------------------------------------
(* The stream-based client of src/x.ts: readReply on a reader of lines     *)
(* (strings, the CRLF already removed by RedisLineStream).  As for the     *)
(* older decoder, the reader is the sequence of the lines still to come    *)
(* and a result is the settled promise with the lines left in the reader.  *)
(* SIMPLE_ERROR_PREFIX and BULK_ERROR_PREFIX of x.ts are the characters    *)
(* of ERROR_PREFIX and BLOB_ERROR_PREFIX.                                  *)

\* new RedisError(message): the message is kept as the value it was given
RedisError(message) == [k |-> "RedisError", v |-> message]

RECURSIVE readReplyX(_), readRepliesX(_, _, _)

\* readReplies(reader, length): the for loop, `replies` read so far
readRepliesX(lines, length, replies) ==
  IF Len(replies) >= length THEN Ok(replies, lines)
  ELSE LET r == readReplyX(lines)
       IN IF r.st = "rejected" THEN r
          ELSE readRepliesX(r.rest, length, Append(replies, r.out))

\* readReply(reader)
readReplyX(lines) ==
  IF lines = <<>>
  THEN Fail(RedisError(Str(<<78, 111, 32, 114, 101, 112, 108, 121, 32,
                             114, 101, 99, 101, 105, 118, 101, 100>>)), lines)
  ELSE
  LET line == Head(lines)
      rest == Tail(lines)
      prefix == IF line = <<>> THEN 0 ELSE line[1]
      value == SliceFrom(line, 1)
      length == NumberOf(value)
  IN CASE prefix = SIMPLE_STRING_PREFIX -> Ok(Str(value), rest)
       [] prefix = ERROR_PREFIX -> Fail(RedisError(Str(value)), rest)
       [] prefix = INTEGER_PREFIX -> Ok(length, rest)
       [] prefix = BULK_STRING_PREFIX ->
            IF length = [t |-> "number", v |-> -1] THEN Ok(Null, rest)
            ELSE readReplyX(rest)
       [] prefix \in {PUSH_PREFIX, ARRAY_PREFIX} ->
            IF length = [t |-> "number", v |-> -1] THEN Ok(Null, rest)
            ELSE LET r == readRepliesX(rest, LengthOf(length), <<>>)
                 IN IF r.st = "rejected" THEN r ELSE Ok(Arr(r.out), r.rest)
       [] prefix = NULL_PREFIX -> Ok(Null, rest)
       [] prefix = BOOLEAN_PREFIX -> Ok(Bool(value = <<Ch_t>>), rest)
       [] prefix = DOUBLE_PREFIX ->
            IF value = <<105, 110, 102>> THEN Ok([t |-> "Infinity"], rest)
            ELSE IF value = <<45, 105, 110, 102>> THEN Ok([t |-> "-Infinity"], rest)
            ELSE Ok(length, rest)
       [] prefix = BIG_NUMBER_PREFIX ->
            IF IsIntegerText(value)
            THEN Ok([t |-> "bigint", v |-> NumberOf(value).v], rest)
            ELSE Fail(RejError("SyntaxError", "Cannot convert to a BigInt"), rest)
       [] prefix = BLOB_ERROR_PREFIX ->
            LET r == readReplyX(rest)
            IN IF r.st = "rejected" THEN r ELSE Fail(RedisError(r.out), r.rest)
       [] prefix = VERBATIM_STRING_PREFIX -> readReplyX(rest)
       [] prefix = MAP_PREFIX ->
            LET r == readRepliesX(rest, LengthOf(Doubled(length)), <<>>)
            IN IF r.st = "rejected" THEN r ELSE Ok(toObject(r.out), r.rest)
       [] prefix = SET_PREFIX ->
            LET r == readRepliesX(rest, LengthOf(length), <<>>)
            IN IF r.st = "rejected" THEN r ELSE Ok(NewSet(r.out, <<>>), r.rest)
       [] OTHER -> Ok(Str(line), rest)

\* A reader holding a bulk string or a verbatim string (its length line and
\* its payload line) and the lines of the replies behind it
\*   bench.payload  the payload line
\*   bench.after    the lines behind the payload
\*   bench.lines    the lines left in the reader
\*   bench.outs     the settled readReply calls
InitX ==
  /\ \E prefix \in {BULK_STRING_PREFIX, VERBATIM_STRING_PREFIX},
        payload \in {<<104, 101, 108, 108, 111>>, <<>>, <<116, 120, 116, 58, 97>>,
                     <<43, 79, 75>>, <<58, 53>>, <<36, 51>>, <<42, 49>>,
                     <<45, 69, 82, 82>>, <<95>>, <<35, 116>>, <<61, 49>>,
                     <<33, 49>>, <<44, 49>>, <<40, 49>>, <<37, 49>>,
                     <<126, 49>>, <<62, 49>>},
        after \in {<<>>, <<<<43, 65>>>>, <<<<58, 49>>, <<43, 65>>>>} :
       bench = [k |-> "x", payload |-> payload, after |-> after,
                lines |-> <<<<prefix>> \o NatToString(Len(payload)), payload>> \o after,
                outs |-> <<>>]
  /\ wire = <<>>
  /\ closed = FALSE
  /\ ops = <<>>
  /\ lis = NoListener
  /\ inbox = <<>>
  /\ answers = <<>>
  /\ log = <<>>
  /\ h = NoHarness

\* readReply(reader) is called, once for the string and once for each line
\* behind it at most
XReadReply ==
  /\ bench.k = "x"
  /\ Len(bench.outs) <= Len(bench.after)
  /\ LET r == readReplyX(bench.lines)
     IN bench' = [bench EXCEPT !.lines = r.rest, !.outs = Append(@, r)]
  /\ UNCHANGED <<ops, lis, wire, closed, inbox, answers, log, h>>

SpecX == InitX /\ [][XReadReply]_vars

----------------------------------------------------------------------------
(* Properties                                                              *)

Settled(op) == op.st \in {"fulfilled", "rejected"}
InFlight(op) == op.st \in {"writing", "reading"}

\* the replies the server sent to the commands of the i-th operation
AnswersOf(i) ==
  SubSeq(answers, ops[i].first + 1,
         Min(Len(answers), ops[i].first + Len(ops[i].cmds)))
AllAnswered(i) == Len(answers) >= ops[i].first + Len(ops[i].cmds)

\* bytes of the connection the i-th operation's iterator handed out in frames
Consumed(i) == ops[i].nread - ops[i].left

RECURSIVE DenotedValues(_)
DenotedValues(rvs) ==
  IF rvs = <<>> THEN <<>>
  ELSE <<Denotes(Head(rvs), FALSE).out>> \o DenotedValues(Tail(rvs))

\* C1: with only sendCommand calls and no error reply from the server, every
\* call that resolves resolves with the reply the server sent to its own
\* command (the k-th command written gets the k-th reply).
C1_OwnReply ==
  (/\ \A i \in 1..Len(ops) : ops[i].kind = "send"
   /\ \A k \in 1..Len(answers) : ~IsErrorReply(answers[k]))
  => \A i \in 1..Len(ops) :
       ops[i].st = "fulfilled" =>
         /\ AllAnswered(i)
         /\ [st |-> "resolved", out |-> ops[i].out]
              = Denotes(answers[ops[i].first + 1], ops[i].raw)

\* C2: after a first sendCommand failed with the server's error reply, a
\* second sendCommand is carried out on its own: it does not settle without
\* having run, and it resolves with the value of the reply to its command.
C2_SecondSendIndependent ==
  \A i \in 1..Len(ops) :
    (/\ i > 1
     /\ ops[i - 1].kind = "send" /\ ops[i - 1].ran /\ ops[i - 1].st = "rejected"
     /\ ops[i - 1].out.k = "string"
     /\ ops[i].kind = "send" /\ Settled(ops[i]))
    => /\ ops[i].ran
       /\ (AllAnswered(i) /\ ~IsErrorReply(answers[ops[i].first + 1]))
            => ops[i].st = "fulfilled"

\* C3: at most one queued operation is in flight, and on the connection the
\* writes and reads of one operation are never separated by a write or read
\* of another.
C3_OneInFlight ==
  /\ Cardinality({i \in 1..Len(ops) : InFlight(ops[i])}) <= 1
  /\ \A a, b, c \in 1..Len(log) :
       (a < b /\ b < c /\ log[a].op = log[c].op) => log[b].op = log[a].op

\* a second operation is held back while the first is between its write and
\* the end of its read
C3_Witness ==
  /\ Len(ops) >= 2
  /\ ops[1].st = "reading"
  /\ ops[1].nread > 0
  /\ ops[2].st = "queued"

\* C4: operations act on the connection in the order of their calls: the
\* log is ordered by call index, each operation writes before it reads, and
\* the commands of an earlier call are written (hence answered) before
\* those of a later call.
C4_Fifo ==
  /\ \A a, b \in 1..Len(log) :
       a < b => /\ log[a].op <= log[b].op
                /\ (log[a].op = log[b].op => ~(log[a].ev = "read" /\ log[b].ev = "write"))
  /\ \A i, j \in 1..Len(ops) :
       (i < j /\ ops[j].ran) =>
          /\ ops[i].ran
          /\ ops[i].first + Len(ops[i].cmds) <= ops[j].first

\* two calls, both carried out and resolved: write, read, write, read
C4_Witness ==
  /\ Len(ops) = 2
  /\ ops[1].kind = "send" /\ ops[1].st = "fulfilled"
  /\ ops[2].kind = "send" /\ ops[2].st = "fulfilled"
  /\ Len(log) = 4

\* C5: pipelineCommands writes the requests of all its commands, in list
\* order, as one buffer before any read; then it reads exactly the replies
\* to its commands, and the array it returns holds the i-th reply at i.
C5_PipelineWritesThenReads ==
  \A i \in 1..Len(ops) :
    ops[i].kind = "pipeline" =>
      /\ ops[i].ran =>
           \E a \in 1..Len(log) :
             /\ log[a] = [op |-> i, ev |-> "write",
                          bytes |-> Concat(MapCreateRequest(ops[i].cmds))]
             /\ \A b \in 1..Len(log) : (log[b].op = i /\ b # a) =>
                                          (b > a /\ log[b].ev = "read")
      /\ (ops[i].ran /\ Settled(ops[i]) /\ AllAnswered(i)) =>
           /\ Consumed(i) = Len(WireAll(AnswersOf(i)))
           /\ ops[i].st = "fulfilled" => ops[i].out = Arr(DenotedValues(AnswersOf(i)))

\* C6: when pipelineCommands fails with the server's error reply, the
\* replies to all commands of the batch have been sent and consumed (shown
\* on batches whose replies are simple strings and errors).
C6_PipelineConsumesAll ==
  \A i \in 1..Len(ops) :
    (/\ ops[i].kind = "pipeline" /\ ops[i].ran /\ ops[i].st = "rejected"
     /\ ops[i].out.k = "string"
     /\ \A k \in 1..Len(AnswersOf(i)) : ~IsStringReply(AnswersOf(i)[k]))
    => /\ AllAnswered(i)
       /\ Consumed(i) = Len(WireAll(AnswersOf(i)))

\* the harness has consumed exactly the first k replies after k calls
InSync(k) == k = 0 \/ h.used[k] = Len(WireAll(SubSeq(answers, 1, k)))

\* C7: a readReply that starts at an error reply ('-' or '!') rejects and
\* leaves the iterator at the first frame of the following reply.
C7_ErrorFullyConsumed ==
  \A k \in 1..Len(h.outs) :
    (k <= Len(answers) /\ InSync(k - 1) /\ IsErrorReply(answers[k]))
    => /\ h.outs[k].st = "rejected"
       /\ InSync(k)

\* C8: a readReply that starts at a bulk or verbatim string of declared
\* length N returns exactly its N payload bytes (as text unless raw) and
\* leaves the iterator behind the payload's trailing CRLF.
C8_BulkByDeclaredLength ==
  \A k \in 1..Len(h.outs) :
    (k <= Len(answers) /\ InSync(k - 1) /\ IsStringReply(answers[k]))
    => /\ [st |-> h.outs[k].st, out |-> h.outs[k].out]
            = Denotes(answers[k], h.outs[k].raw)
       /\ InSync(k)

\* C9: a sendCommand whose read meets end-of-stream before any byte of the
\* reply rejects with TypeError 'No reply received'; a sendCommand that
\* meets the server's error reply ('-' or '!') rejects with the message as
\* a string, which is never that TypeError.
C9_NoReplyDistinct ==
  \A i \in 1..Len(ops) :
    (ops[i].kind = "send" /\ ops[i].ran /\ Settled(ops[i])) =>
      /\ ops[i].nread = 0 =>
           /\ ops[i].st = "rejected"
           /\ ops[i].out = [k |-> "TypeError", m |-> "No reply received"]
      /\ (/\ ops[i].nread > 0
          /\ \A j \in 1..(i - 1) : ops[j].kind = "send"
          /\ \A k \in 1..ops[i].first : answers[k].t = "simple"
          /\ IsErrorReply(answers[ops[i].first + 1])) =>
           /\ ops[i].st = "rejected"
           /\ ops[i].out = Denotes(answers[ops[i].first + 1], ops[i].raw).out
           /\ ops[i].out.k = "string"

\* the server closed before answering, and the sendCommand read end-of-stream
C9_Witness ==
  \E i \in 1..Len(ops) :
    /\ ops[i].kind = "send" /\ ops[i].ran /\ ops[i].st = "rejected"
    /\ ops[i].nread = 0
    /\ closed

\* C10: an iterator of readReplies dropped between two yields has taken
\* from the connection exactly the bytes of the replies it yielded (shown
\* on servers that have sent simple strings only).
C10_DroppedConsumedExactly ==
  (/\ lis.st = "dropped"
   /\ \A k \in 1..Len(answers) : answers[k].t = "simple")
  => Buffered(lis.rd.g) = 0

\* the listener's iterator has read every byte taken from the connection
ReadsFromStart == lis.st # "none" /\ lis.nread + Len(wire) = Len(WireAll(answers))

\* C11: while the connection is open and the server has sent replies other
\* than errors, an iterator of readReplies that reads the connection from
\* the start yields the k-th reply at its k-th next() and is never done.
C11_OnePerMessage ==
  (/\ ReadsFromStart
   /\ \A k \in 1..Len(answers) : ~IsErrorReply(answers[k]))
  => /\ ~closed => lis.st # "done"
     /\ Len(lis.outs) <= Len(answers)
     /\ \A k \in 1..Len(lis.outs) : lis.outs[k] = Denotes(answers[k], lis.raw).out

\* C12: the sequence of readReplies never ends because of a server error
\* reply: when the generator has ended, the reason is not the message of a
\* '-' or '!' reply.
C12_ErrorDoesNotEnd ==
  (ReadsFromStart /\ lis.st = "done") => lis.rd.out.k # "string"

\* the CRLF-delimited segments of a byte stream, the CRLF stripped
RECURSIVE SplitCrlf(_)
SplitCrlf(s) ==
  LET at == {i \in 1..(Len(s) - 1) : s[i] = CR /\ s[i + 1] = LF}
  IN IF at = {} THEN <<s>>
     ELSE LET i == CHOOSE i \in at : \A j \in at : i <= j
          IN <<SubSeq(s, 1, i - 1)>> \o SplitCrlf(SubSeq(s, i + 2, Len(s)))

Front(s) == SubSeq(s, 1, Len(s) - 1)
Last(s) == s[Len(s)]

\* the bytes of the stream readLines has been given so far
Given == SubSeq(bench.stream, 1, Len(bench.stream) - Len(wire))

\* C13: however the stream is cut into reads, readLines yields the
\* CRLF-delimited segments of the stream: whenever it asks for more input
\* it has yielded every complete segment of the bytes given so far and
\* keeps the incomplete one, once the stream has ended it has yielded all
\* segments, and it never stops short of that.
C13_SplitIndependent ==
  bench.k = "lines" =>
    /\ bench.g.pc # "spin"
    /\ bench.g.pc = "read" =>
         /\ bench.frames = Front(SplitCrlf(Given))
         /\ bench.g.chunks = Last(SplitCrlf(Given))
    /\ bench.g.pc = "yield" =>
         bench.frames = SubSeq(SplitCrlf(Given), 1, Len(bench.frames))
    /\ bench.g.pc \in {"last", "done"} => bench.frames = SplitCrlf(bench.stream)

\* C14: when the stream has ended with bytes after its last CRLF, the line
\* reader has yielded those bytes as its final frame (readLines once its
\* read returned null, LineStream once flushed).
C14_RemainderYielded ==
  (bench.k = "lines" /\ Last(SplitCrlf(bench.stream)) # <<>>) =>
    /\ bench.g.pc \in {"last", "done"} =>
         /\ bench.frames # <<>>
         /\ Last(bench.frames) = Last(SplitCrlf(bench.stream))
    /\ bench.ls.flushed => bench.ls.out = SplitCrlf(bench.stream)

\* a line, CRLF, and a byte without CRLF behind it: both readers have ended
C14_Witness ==
  /\ bench.k = "lines"
  /\ bench.stream = <<97, CR, LF, 97>>
  /\ bench.g.pc = "last"
  /\ bench.frames = <<<<97>>, <<97>>>>
  /\ bench.ls.flushed
  /\ bench.ls.out = <<<<97>>, <<97>>>>

\* the first readReply of the harness has settled
Decoded == Len(h.outs) >= 1 /\ Len(answers) >= 1

\* C15: readReply (raw not set) on an array or push reply of N elements
\* returns the array of the N element values in arrival order, nested
\* aggregates included, and leaves the iterator at the first frame of the
\* following reply.
C15_ArrayExactlyN ==
  (Decoded /\ answers[1].t \in {"array", "push"} /\ ~h.outs[1].raw) =>
    /\ [st |-> h.outs[1].st, out |-> h.outs[1].out] = Denotes(answers[1], FALSE)
    /\ InSync(1)

\* a reply with the attributes before it and inside it removed
RECURSIVE WithoutAttributes(_)
WithoutAttributes(rv) ==
  CASE rv.t = "attribute" -> WithoutAttributes(rv.of)
    [] rv.t \in {"array", "push", "set", "map"} ->
         [rv EXCEPT !.v = [i \in 1..Len(rv.v) |-> WithoutAttributes(rv.v[i])]]
    [] OTHER -> rv

RECURSIVE HasAttribute(_)
HasAttribute(rv) ==
  \/ rv.t = "attribute"
  \/ /\ rv.t \in {"array", "push", "set", "map"}
     /\ \E i \in 1..Len(rv.v) : HasAttribute(rv.v[i])

\* C16: readReply on a reply with an attribute before it, or before one of
\* its elements, settles as readReply does on the same reply with the
\* attribute removed, and consumes the attribute and the reply entirely.
C16_AttributeTransparent ==
  (Decoded /\ HasAttribute(answers[1])) =>
    LET plain == DecodeBuffer(Wire(WithoutAttributes(answers[1])), h.outs[1].raw)
    IN /\ h.outs[1].st = plain.st
       /\ h.outs[1].out = plain.out
       /\ InSync(1)

\* C19: readReply (raw not set) on a map reply of M pairs consumes its 2*M
\* replies and returns the M pairs in arrival order, the (2i)-th reply the
\* key of the (2i+1)-th.
C19_MapPairsInOrder ==
  (Decoded /\ answers[1].t = "map" /\ ~h.outs[1].raw) =>
    /\ [st |-> h.outs[1].st, out |-> h.outs[1].out] = Denotes(answers[1], FALSE)
    /\ InSync(1)

\* two sets are equal when they hold the same elements, in whatever order
SameSet(a, b) ==
  /\ a.t = "set" /\ b.t = "set"
  /\ {a.v[i] : i \in 1..Len(a.v)} = {b.v[i] : i \in 1..Len(b.v)}
  /\ Len(a.v) = Len(b.v)

\* C20: readReply on a set reply returns the set of the distinct element
\* values, each held once, whether the equal elements are primitives or
\* aggregates and whatever their order.
C20_SetByValue ==
  (Decoded /\ answers[1].t = "set") =>
    /\ h.outs[1].st = "resolved"
    /\ SameSet(h.outs[1].out, Denotes(answers[1], h.outs[1].raw).out)

\* C17: a streamed aggregate decodes to every reply sent between its header
\* and the terminating '.' frame, in arrival order (as an array, or as the
\* set or map made of that array), and only the terminator ends it: no line
\* is left unread.
C17_StreamedAggregate ==
  (bench.k = "streamed" /\ bench.prefix \in StreamedPrefixes /\ bench.res # Null) =>
    /\ bench.res.st = "resolved"
    /\ bench.res.out = Wrapped(WrapOf(bench.prefix), DenotesAll(bench.elems, FALSE))
    /\ bench.res.rest = <<>>

RECURSIVE ConcatText(_)
ConcatText(payloads) ==
  IF payloads = <<>> THEN <<>>
  ELSE Utf8Decode(Head(payloads)) \o ConcatText(Tail(payloads))

\* C18: a streamed string decodes to the concatenation of its chunk
\* payloads in arrival order, whatever the payloads hold, and is read up to
\* its ';0' line.
C18_StreamedString ==
  (bench.k = "streamed" /\ bench.prefix = BULK_STRING_PREFIX /\ bench.res # Null) =>
    /\ bench.res.st = "resolved"
    /\ bench.res.out = Str(ConcatText(bench.elems))
    /\ bench.res.rest = <<>>

\* C21: null and empty are told apart. readReply on '*-1' returns null and
\* on '*0' the empty array; on '$-1' it returns null and consumes the header
\* frame only, on '$0' it returns the empty string (the empty Uint8Array
\* when raw) and consumes the header and one empty payload frame.
C21_NullNotEmpty ==
  \A k \in 1..Len(h.outs) :
    (k <= Len(answers) /\ answers[k] \in NullReplies /\ InSync(k - 1)) =>
      /\ h.outs[k].st = "resolved"
      /\ h.outs[k].out =
           CASE answers[k] = NullArray -> Null
             [] answers[k] = Array(<<>>) -> Arr(<<>>)
             [] answers[k] = NullBulk -> Null
             [] OTHER -> IF h.outs[k].raw THEN Bytes(<<>>) ELSE Str(<<>>)
      /\ InSync(k)

\* an empty bulk string and then a null bulk string, both decoded
C21_Witness ==
  /\ answers = <<Bulk(<<>>), NullBulk>>
  /\ Len(h.outs) = 2
  /\ h.outs[1].out = Str(<<>>)
  /\ h.outs[2].out = Null
  /\ h.used = <<6, 11>>

\* the decimal digits at the start of a byte sequence
RECURSIVE DigitsPrefix(_)
DigitsPrefix(bytes) ==
  IF bytes # <<>> /\ IsDigit(Head(bytes))
  THEN <<Head(bytes)>> \o DigitsPrefix(Tail(bytes))
  ELSE <<>>

\* a line '<prefix><n>' CRLF at the start of bytes, n in decimal without
\* leading zeros: n and the bytes behind the line
CountHeader(bytes, prefix) ==
  LET d == IF bytes # <<>> /\ Head(bytes) = prefix THEN DigitsPrefix(Tail(bytes)) ELSE <<>>
      after == SubSeq(bytes, 2 + Len(d), Len(bytes))
  IN IF /\ d # <<>>
        /\ (Len(d) = 1 \/ Head(d) # ChZero)
        /\ Len(after) >= 2
        /\ SubSeq(after, 1, 2) = <<CR, LF>>
     THEN [ok |-> TRUE, n |-> DigitsValue(d, 0), rest |-> SubSeq(after, 3, Len(after))]
     ELSE [ok |-> FALSE, n |-> 0, rest |-> <<>>]

\* n groups '$<len>' CRLF <len bytes> CRLF and nothing behind them: the
\* byte strings of the groups
RECURSIVE BulkGroups(_, _)
BulkGroups(bytes, n) ==
  IF n = 0 THEN [ok |-> bytes = <<>>, args |-> <<>>]
  ELSE LET hd == CountHeader(bytes, BULK_STRING_PREFIX)
       IN IF \/ ~hd.ok
             \/ Len(hd.rest) < hd.n + 2
             \/ SubSeq(hd.rest, hd.n + 1, hd.n + 2) # <<CR, LF>>
          THEN [ok |-> FALSE, args |-> <<>>]
          ELSE LET tl == BulkGroups(SubSeq(hd.rest, hd.n + 3, Len(hd.rest)), n - 1)
               IN [ok |-> tl.ok, args |-> <<SubSeq(hd.rest, 1, hd.n)>> \o tl.args]

\* C22: createRequest(command) is '*<N>' CRLF followed by exactly N groups
\* '$<len>' CRLF <bytes> CRLF, N the number of arguments, the i-th <bytes>
\* the UTF-8 form of the i-th argument and <len> its byte length.
C22_RequestFormat ==
  (bench.k = "request" /\ bench.done) =>
    LET hd == CountHeader(bench.request, ARRAY_PREFIX)
    IN /\ hd.ok
       /\ hd.n = Len(bench.command)
       /\ BulkGroups(hd.rest, hd.n) = [ok |-> TRUE, args |-> bench.utf8]

\* a request is made of a text with a two-byte character and of a number
C22_Witness ==
  /\ bench.k = "request"
  /\ bench.done
  /\ bench.command = <<StrArg(<<233, 97>>), NumArg(42)>>
  /\ bench.request = <<42, 50, 13, 10, 36, 51, 13, 10, 195, 169, 97, 13, 10,
                       36, 50, 13, 10, 52, 50, 13, 10>>

\* a reply that is or holds a bulk string
RECURSIVE HasBulk(_)
HasBulk(rv) ==
  \/ rv.t = "bulk"
  \/ /\ rv.t \in {"array", "push", "set", "map"}
     /\ \E i \in 1..Len(rv.v) : HasBulk(rv.v[i])
  \/ rv.t = "attribute" /\ HasBulk(rv.of)

\* no bulk string of the reply holds CR LF in its payload
RECURSIVE PlainPayloads(_)
PlainPayloads(rv) ==
  CASE rv.t = "bulk" -> \A i \in 1..(Len(rv.v) - 1) : ~(rv.v[i] = CR /\ rv.v[i + 1] = LF)
    [] rv.t \in {"array", "push", "set", "map"} ->
         \A i \in 1..Len(rv.v) : PlainPayloads(rv.v[i])
    [] rv.t = "attribute" ->
         PlainPayloads(rv.of) /\ \A i \in 1..Len(rv.v) : PlainPayloads(rv.v[i])
    [] OTHER -> TRUE

\* C23: readReply with raw set returns every bulk string of the reply as
\* its payload bytes, also the bulk strings that are elements of an array,
\* push, map or set; with raw not set it returns them as text (shown on
\* replies whose payloads hold no CR LF).
C23_RawEverywhere ==
  (Decoded /\ HasBulk(answers[1]) /\ PlainPayloads(answers[1])) =>
    /\ h.outs[1].st = "resolved"
    /\ h.outs[1].out = Denotes(answers[1], h.outs[1].raw).out

\* C24: RedisClient.writeCommand writes its request and reads nothing: it
\* performs no read on the connection and takes no byte from it, and when it
\* has resolved and no later operation has started, every reply the server
\* has sent to its command is still unread at the end of the connection's
\* input.
C24_WriteReadsNothing ==
  \A i \in 1..Len(ops) :
    ops[i].kind = "write" =>
      /\ ops[i].nread = 0
      /\ \A a \in 1..Len(log) : log[a].op = i =>
           log[a] = [op |-> i, ev |-> "write", bytes |-> createRequest(ops[i].cmds[1])]
      /\ ops[i].st \in {"writing", "reading"}
           => ops[i].st = "writing" /\ ops[i].rd = NewReader
      /\ (ops[i].st = "fulfilled" /\ \A j \in (i + 1)..Len(ops) : ~ops[j].ran) =>
           LET sent == WireAll(AnswersOf(i))
           IN /\ Len(wire) >= Len(sent)
              /\ SubSeq(wire, Len(wire) - Len(sent) + 1, Len(wire)) = sent

\* writeCommand has resolved and the reply to its command waits unread
C24_Witness ==
  /\ Len(ops) = 1
  /\ ops[1].kind = "write" /\ ops[1].st = "fulfilled"
  /\ Len(answers) = 1
  /\ wire = Wire(answers[1])

\* the settled state of the i-th call, as an outcome
OutcomeOf(i) ==
  [st |-> IF ops[i].st = "fulfilled" THEN "resolved" ELSE "rejected", out |-> ops[i].out]

\* C25: a sendCommand whose caller has stopped waiting is carried out all
\* the same: its task reads exactly the one reply to its command, and the
\* next sendCommand of the client, once settled, has run and has received
\* the reply to its own command (the connection staying open).
C25_AbandonedStillReads ==
  bench.k = "callers" =>
    \A i \in bench.gaveUp :
      /\ Settled(ops[i]) =>
           /\ ops[i].ran
           /\ Consumed(i) = Len(Wire(answers[ops[i].first + 1]))
      /\ (i < Len(ops) /\ Settled(ops[i + 1])) =>
           /\ ops[i + 1].ran
           /\ OutcomeOf(i + 1) = Denotes(answers[ops[i + 1].first + 1], ops[i + 1].raw)

\* C26: when the stream ends after the header line of an aggregate or of a
\* bulk string and before all of its elements or payload bytes have
\* arrived, the readReply that started at the header rejects: it resolves
\* with no value.
C26_TruncationFatal ==
  (bench.k = "truncated" /\ Len(h.outs) >= 1) => h.outs[1].st = "rejected"

\* the message of an error reply as text: the text of a '-' line, the first
\* line of the payload of a blob error
MessageOf(rv) ==
  IF rv.t = "error" THEN rv.v ELSE Utf8Decode(SplitCrlf(rv.v)[1])

ExactInteger(text) ==
  LET body == IF Head(text) = ChMinus THEN Tail(text) ELSE text
  IN [t |-> "number",
      v |-> IF IsSmall(body)
            THEN (IF Head(text) = ChMinus THEN 0 - DigitsValue(body, 0)
                  ELSE DigitsValue(body, 0))
            ELSE text]

\* C28: readReply on ':<n>', n in the 64-bit signed range, returns exactly
\* n, so that two different integers never give the same value.
C28_IntegerExact ==
  (bench.k = "integer" /\ Len(h.outs) >= 1) =>
    /\ h.outs[1].st = "resolved"
    /\ h.outs[1].out = ExactInteger(bench.text)

C30_ListenerKeptOut ==
  \A i \in 1..Len(ops) :
    InFlight(ops[i]) =>
      \A a, b \in 1..Len(log) :
        (a < b /\ log[a].op = i) => log[b].op # 0

\* bytes of the connection taken by the operations before the i-th
RECURSIVE TakenBefore(_)
TakenBefore(i) == IF i <= 1 THEN 0 ELSE TakenBefore(i - 1) + ops[i - 1].nread

\* messages pushed before the k-th command reply was sent
PushedBefore(k) ==
  Cardinality({p \in 1..Len(bench.pushed) : bench.pushed[p] < k})

\* the offset in the connection's byte stream at which the k-th reply starts
StartOfReply(k) ==
  Len(WireAll(SubSeq(answers, 1, k - 1))) + PushedBefore(k) * Len(Wire(PushedMessage))

\* the i-th operation is a sendCommand that started reading at the first
\* byte of the reply to its command and decoded exactly that reply
DecodedOwnReply(i) ==
  /\ ops[i].kind = "send"
  /\ ops[i].st = "fulfilled"
  /\ AllAnswered(i)
  /\ TakenBefore(i) = StartOfReply(ops[i].first + 1)
  /\ Consumed(i) = Len(Wire(answers[ops[i].first + 1]))

\* C31: no received byte is lost between operations: when the reads of an
\* operation returned bytes beyond the end of the reply it decoded, those
\* bytes are still there for the next operation that reads (the operation
\* has let go of no byte it took from the connection and did not decode).
C31_SurplusKept ==
  \A i \in 1..Len(ops) : DecodedOwnReply(i) => ops[i].left = 0

\* C32: readLines makes progress on every finite byte stream, whatever its
\* bytes and however it is cut into reads: with a consumer that keeps
\* asking and reads that return, the generator eventually yields its final
\* frame and completes.
C32_ReadLinesCompletes ==
  <>(bench.k = "lines" /\ bench.g.pc = "done" /\ bench.frames # <<>>)

\* the offset in the stream at which the j-th call of the harness starts:
\* the bytes the calls before it were handed in frames
StartOfCall(j) == IF j = 1 THEN 0 ELSE h.used[j - 1]

\* C33: readReply fails with TypeError 'No reply received' if and only if
\* the stream had ended before any byte of the reply was delivered: no
\* frame the server delivered, the empty line included, gives this failure.
C33_NoReplyIffEnd ==
  \A j \in 1..Len(h.outs) :
    (h.outs[j].st = "rejected" /\ h.outs[j].out = NoReplyReceived)
      <=> StartOfCall(j) = Len(WireAll(answers))

\* C34: with writes that complete and reads that return, every operation
\* enqueued on the RedisClient eventually settles, and an operation starts
\* only after every operation enqueued before it has settled.
C34_EverySettles ==
  /\ [](\A i, j \in 1..Len(ops) : (i < j /\ ops[j].ran) => Settled(ops[i]))
  /\ \A i \in 1..MaxOps :
       [](Len(ops) >= i => <>(Len(ops) >= i /\ Settled(ops[i])))

\* C35: in the stream-based client, a bulk string '$N' or a verbatim string
\* '=N' followed by the payload line P decodes to P itself and takes
\* exactly that one line from the reader, whatever the first character of P.
C35_PayloadIsItself ==
  (bench.k = "x" /\ Len(bench.outs) >= 1) =>
    /\ bench.outs[1].st = "resolved"
    /\ bench.outs[1].out.t = "string"
    /\ bench.outs[1].out.v = bench.payload
    /\ bench.outs[1].rest = bench.after

====
